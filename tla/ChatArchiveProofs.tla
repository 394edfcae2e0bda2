-------------------------- MODULE ChatArchiveProofs --------------------------
(***************************************************************************)
(* Theorems about ChatArchive for any users, chats and bounds, checked by  *)
(* TLAPS.                                                                  *)
(***************************************************************************)
EXTENDS ChatArchive, FiniteSetTheorems, FunctionTheorems, SequenceTheorems, TLAPS

-----------------------------------------------------------------------------
(* Queues.                                                                 *)

Elems(s) == {s[i] : i \in DOMAIN s}
Newest(s) == s[Len(s)]

LEMMA Pushed ==
  ASSUME NEW S, NEW s \in Seq(S), NEW e \in S
  PROVE  /\ Append(s, e) \in Seq(S) /\ Len(Append(s, e)) = Len(s) + 1 /\ Append(s, e) # <<>>
         /\ Newest(Append(s, e)) = e /\ Elems(Append(s, e)) = Elems(s) \cup {e}
<1> DEFINE t == Append(s, e)
<1>1. /\ t \in Seq(S) /\ Len(t) = Len(s) + 1 /\ Len(s) \in Nat
      /\ DOMAIN s = 1 .. Len(s) /\ DOMAIN t = 1 .. Len(s) + 1
      /\ \A i \in 1 .. Len(s) : t[i] = s[i]
      /\ t[Len(s) + 1] = e
  BY AppendProperties, LenProperties
<1> HIDE DEF t
<1>2. Elems(t) = Elems(s) \cup {e}
  BY <1>1 DEF Elems
<1>3. Newest(t) = e
  BY <1>1 DEF Newest
<1>4. t # <<>>
  BY <1>1, EmptySeq
<1> QED BY <1>1, <1>2, <1>3, <1>4 DEF t

LEMMA Popped ==
  ASSUME NEW S, NEW s \in Seq(S), s # <<>>
  PROVE  /\ Head(s) \in S /\ Tail(s) \in Seq(S) /\ Len(Tail(s)) <= Len(s)
         /\ Elems(s) = {Head(s)} \cup Elems(Tail(s))
         /\ IF Tail(s) = <<>> THEN Newest(s) = Head(s) ELSE Newest(s) = Newest(Tail(s))
<1> DEFINE t == Tail(s)
<1>1. /\ Head(s) \in S /\ t \in Seq(S) /\ Len(t) = Len(s) - 1 /\ Len(s) \in Nat
      /\ \A i \in 1 .. Len(t) : t[i] = s[i + 1]
      /\ DOMAIN s = 1 .. Len(s) /\ DOMAIN t = 1 .. Len(t) /\ Head(s) = s[1] /\ Len(s) > 0
  BY HeadTailProperties, LenProperties, EmptySeq
<1> HIDE DEF t
<1>0. t = <<>> <=> Len(t) = 0
  BY <1>1, EmptySeq
<1>2. Elems(s) = {Head(s)} \cup Elems(t)
  <2>1. ASSUME NEW i \in 1 .. Len(s) PROVE s[i] = Head(s) \/ s[i] \in Elems(t)
    <3>1. CASE i = 1
      BY <1>1, <3>1
    <3>2. CASE i # 1
      <4>1. i - 1 \in 1 .. Len(t)
        BY <1>1, <3>2
      <4>2. t[i - 1] = s[i]
        BY <1>1, <4>1
      <4> QED BY <1>1, <4>1, <4>2 DEF Elems
    <3> QED BY <3>1, <3>2
  <2>2. Elems(s) \subseteq {Head(s)} \cup Elems(t)
    BY <1>1, <2>1 DEF Elems
  <2>3. ASSUME NEW j \in 1 .. Len(t) PROVE t[j] \in Elems(s)
    <3>1. j + 1 \in 1 .. Len(s) /\ t[j] = s[j + 1]
      BY <1>1
    <3> QED BY <1>1, <3>1 DEF Elems
  <2>4. Elems(t) \subseteq Elems(s)
    BY <1>1, <2>3 DEF Elems
  <2>5. Head(s) \in Elems(s)
    BY <1>1 DEF Elems
  <2> QED BY <2>2, <2>4, <2>5
<1>3. CASE t = <<>>
  BY <1>0, <1>1, <1>2, <1>3 DEF Newest, t
<1>4. CASE t # <<>>
  <2>1. Len(t) \in 1 .. Len(t) /\ Len(t) + 1 = Len(s)
    BY <1>0, <1>1, <1>4
  <2>2. Newest(s) = Newest(t)
    BY <1>1, <2>1 DEF Newest
  <2> QED BY <1>1, <1>2, <1>4, <2>2 DEF t
<1> QED BY <1>3, <1>4

LEMMA WiderSeq == ASSUME NEW S, NEW T, S \subseteq T PROVE Seq(S) \subseteq Seq(T)
OBVIOUS

-----------------------------------------------------------------------------
(* The invariant.                                                          *)

USE DEF past

Event(n) == [enabled : BOOLEAN, conn : 1 .. n]
Job(n) == [pc : {"idle", "store", "preview", "invoice"}, conn : 0 .. n,
           chat : Chats \cup {0}, count : SUBSET (1 .. MaxMessages)]
Page == [kind : {"none", "list", "chat"}, chats : SUBSET Chats, count : SUBSET (1 .. MaxMessages)]
Bill == {NoBill} \cup ((SUBSET (1 .. MaxMessages)) \ {{}})
Message(n) == [id : 1 .. MaxMessages, owner : Users, chat : Chats, conn : 1 .. n,
               late : BOOLEAN, deleted : BOOLEAN]

Members ==
  /\ member \subseteq Users /\ connected \subseteq member
  /\ known \subseteq Chats /\ cutOff \subseteq Users
  /\ faults \in 0 .. MaxFaults

Wires ==
  /\ conns \in 0 .. MaxConns
  /\ link \in [Users -> 0 .. conns] /\ current \in [Users -> 0 .. conns]
  /\ had \in [Users -> SUBSET (1 .. conns)] /\ moved \subseteq 1 .. conns
  /\ inbox \in [Users -> Seq(Event(conns))]
  /\ \A u \in Users : Len(inbox[u]) <= MaxEvents
  /\ job \in [Users -> Job(conns)]
  /\ messages \subseteq Message(conns)

\* Messages are numbered.
Numbered ==
  /\ IsFiniteSet(messages) /\ Cardinality(messages) <= MaxMessages
  /\ \A m \in messages : m.id <= Cardinality(messages)
  /\ \A m, n \in messages : m.id = n.id => m = n

Menu ==
  /\ page \in [Users -> Page] /\ bill \in [Users -> Bill]
  /\ \A u \in Users :
       /\ job[u].pc = "store" => job[u].conn # 0 /\ u \in member
       /\ job[u].pc \in {"preview", "invoice"} => job[u].chat \in Chats

TInv == Members /\ Wires /\ Numbered /\ Menu

\* The connection a user's messages are found under once his update has been handled.
HeadConn(u) == IF job[u].pc = "store" THEN job[u].conn ELSE link[u]

\* The connections his messages may be under now, and those that have to do with him.
Ahead(u) == {HeadConn(u)} \cup {e.conn : e \in {f \in Elems(inbox[u]) : f.enabled}}
Mine(u) == {link[u], current[u], job[u].conn} \cup had[u] \cup {e.conn : e \in Elems(inbox[u])}
           \cup {m.conn : m \in {n \in messages : n.owner = u}}

Separate == \A u, v \in Users : u # v => Mine(u) \cap Mine(v) \subseteq {0}

\* The newest of the updates that wait says what Telegram knows; when none waits, the row
\* or the job does.
Followed(u) ==
  /\ inbox[u] # <<>> =>
       /\ Newest(inbox[u]).enabled <=> current[u] # 0
       /\ Newest(inbox[u]).enabled => Newest(inbox[u]).conn = current[u]
  /\ inbox[u] = <<>> /\ job[u].pc = "store" => current[u] = job[u].conn
  /\ inbox[u] = <<>> /\ job[u].pc # "store" =>
       (u \in connected <=> current[u] # 0) /\ current[u] \in {0, link[u]}

\* A connection whose messages were not moved is still ahead, and so is every message that
\* was saved in time.
Carried(u) ==
  /\ had[u] \ moved \subseteq Ahead(u)
  /\ \A m \in messages : m.owner = u /\ ~m.late => m.conn \in Ahead(u)

\* What a page or a count shows is still there, flagged or not.
Under(u, chat) == Ids({m \in messages : m.chat = chat /\ m.conn = HeadConn(u)})

Shown(u) ==
  /\ page[u].kind = "chat" => \A c \in page[u].chats : page[u].count \subseteq Under(u, c)
  /\ job[u].pc = "preview" => job[u].count \subseteq Under(u, job[u].chat)
  /\ job[u].pc = "invoice" =>
       /\ page[u].kind = "chat" /\ job[u].chat \in page[u].chats
       /\ \A m \in messages : m.id \in page[u].count => m.id \in job[u].count \/ m.deleted

Followers == \A u \in Users \ cutOff : u \in member /\ Followed(u) /\ Carried(u) /\ Shown(u)

CInv == TInv /\ Separate /\ Followers

-----------------------------------------------------------------------------
(* Types.                                                                  *)

LEMMA Typed == ASSUME TInv PROVE TypeOK
BY DEF TInv, Members, Wires, Numbered, Menu, Event, Job, Page, Message, Bill, TypeOK

LEMMA Moving ==
  ASSUME TInv, NEW from \in 1 .. conns, NEW to \in 1 .. conns
  PROVE  LET T == Moved(from, to)
         IN  /\ T \subseteq Message(conns)
             /\ IsFiniteSet(T) /\ Cardinality(T) = Cardinality(messages)
             /\ \A m \in T : m.id <= Cardinality(messages)
             /\ \A m, n \in T : m.id = n.id => m = n
<1> DEFINE g(m) == IF m.conn = from THEN [m EXCEPT !.conn = to] ELSE m
           T == {g(m) : m \in messages}
<1>0. /\ messages \subseteq Message(conns) /\ IsFiniteSet(messages)
      /\ \A m \in messages : m.id <= Cardinality(messages)
      /\ \A m, n \in messages : m.id = n.id => m = n
  BY DEF TInv, Wires, Numbered
<1>1. \A m \in messages : g(m) \in Message(conns) /\ g(m).id = m.id
  BY <1>0 DEF Message
<1> DEFINE f == [m \in messages |-> g(m)]
<1> HIDE DEF g
<1>2. \A m \in messages : f[m] = g(m) /\ f[m] \in T
  OBVIOUS
<1>3. f \in [messages -> T] /\ \A y \in T : \E m \in messages : f[m] = y
  BY <1>2
<1>4. \A m, n \in messages : f[m] = f[n] => m = n
  BY <1>0, <1>1, <1>2
<1> HIDE DEF f
<1>5. f \in Bijection(messages, T)
  BY <1>3, <1>4 DEF Bijection, Injection, Surjection, IsInjective
<1>6. IsFiniteSet(T) /\ Cardinality(T) = Cardinality(messages)
  BY <1>0, <1>5, FS_Bijection DEF ExistsBijection
<1>7. T \subseteq Message(conns) /\ \A m \in T : m.id <= Cardinality(messages)
  BY <1>0, <1>1
<1>8. \A m, n \in T : m.id = n.id => m = n
  BY <1>0, <1>1
<1>9. T = Moved(from, to)
  BY DEF g, Moved
<1> HIDE DEF T
<1> QED BY <1>6, <1>7, <1>8, <1>9

\* What a step can be.
Pops(u) == HandleUnknown(u) \/ HandleDisconnect(u) \/ FailFirst(u)

Presses(u) == \E chat \in Chats : CountPreview(u, chat) \/ CountChat(u, chat)

LEMMA Steps ==
  ASSUME Next
  PROVE  \/ \E u \in Users : \/ Telegram(u) \/ Pops(u) \/ Rekey(u) \/ StoreLink(u)
                             \/ ListChats(u) \/ ShowPreview(u) \/ Invoice(u) \/ Fail(u)
                             \/ Presses(u) \/ DeleteData(u) \/ Return(u)
                             \/ \E chat \in Chats : Save(u, chat)
         \/ \E m \in messages : Flag(m)
         \/ \E chat \in Chats : OtherLeaves(chat) \/ OtherJoins(chat)
BY Zenon DEF Next, ConnectionUpdate, Export, Pops, Presses

\* An update reaches the queue: it says what Telegram knows from then on.
LEMMA Announced ==
  ASSUME TInv, NEW u \in Users, Telegram(u)
  PROVE  \E e \in Event(conns'), c \in 0 .. conns' :
           /\ e.enabled <=> c # 0
           /\ e.enabled => e.conn = c
           /\ \/ conns' = conns /\ e.conn = current[u]
              \/ conns' = conns + 1 /\ conns < MaxConns /\ e.conn = conns + 1
           /\ Len(inbox[u]) < MaxEvents /\ inbox' = [inbox EXCEPT ![u] = Append(@, e)]
           /\ current' = [current EXCEPT ![u] = c]
           /\ \/ had' = had
              \/ had' = [had EXCEPT ![u] = @ \cup {e.conn}] /\ e.enabled
           /\ UNCHANGED <<rows, moved, cutOff, job, menu, faults>>
<1>0. /\ conns \in Nat /\ current \in [Users -> 0 .. conns]
  BY DEF TInv, Wires
<1>1. CASE Connect(u)
  <2> DEFINE e == [enabled |-> TRUE, conn |-> conns + 1]
  <2>1. /\ conns' = conns + 1 /\ conns < MaxConns /\ current' = [current EXCEPT ![u] = conns + 1]
        /\ Len(inbox[u]) < MaxEvents /\ inbox' = [inbox EXCEPT ![u] = Append(@, e)]
        /\ had' = [had EXCEPT ![u] = @ \cup {e.conn}]
        /\ UNCHANGED <<rows, moved, cutOff, job, menu, faults>>
    BY <1>1 DEF Connect, Push
  <2>2. e \in Event(conns') /\ e.enabled /\ e.conn = conns + 1
    BY <1>0, <2>1 DEF Event
  <2>3. conns + 1 \in 0 .. conns' /\ conns + 1 # 0
    BY <1>0, <2>1
  <2> HIDE DEF e
  <2> QED BY <2>1, <2>2, <2>3
<1>2. CASE ChangeRights(u)
  <2> DEFINE e == [enabled |-> TRUE, conn |-> current[u]]
  <2>1. /\ conns' = conns /\ current' = current /\ current[u] # 0
        /\ Len(inbox[u]) < MaxEvents /\ inbox' = [inbox EXCEPT ![u] = Append(@, e)]
        /\ UNCHANGED <<rows, had, moved, cutOff, job, menu, faults>>
    BY <1>2 DEF ChangeRights, Push, past
  <2>2. e \in Event(conns') /\ e.enabled /\ e.conn = current[u]
    BY <1>0, <2>1 DEF Event
  <2>3. current[u] \in 0 .. conns' /\ current' = [current EXCEPT ![u] = current[u]]
    BY <1>0, <2>1
  <2> HIDE DEF e
  <2> QED BY <2>1, <2>2, <2>3
<1>3. CASE Disconnect(u)
  <2> DEFINE e == [enabled |-> FALSE, conn |-> current[u]]
  <2>1. /\ conns' = conns /\ current' = [current EXCEPT ![u] = 0] /\ current[u] # 0
        /\ Len(inbox[u]) < MaxEvents /\ inbox' = [inbox EXCEPT ![u] = Append(@, e)]
        /\ UNCHANGED <<rows, had, moved, cutOff, job, menu, faults>>
    BY <1>3 DEF Disconnect, Push, past
  <2>2. e \in Event(conns') /\ ~e.enabled /\ e.conn = current[u]
    BY <1>0, <2>1 DEF Event
  <2>3. 0 \in 0 .. conns'
    BY <1>0, <2>1
  <2> HIDE DEF e
  <2> QED BY <2>1, <2>2, <2>3
<1> QED BY <1>1, <1>2, <1>3 DEF Telegram

LEMMA TelegramType == ASSUME TInv, NEW u \in Users, Telegram(u) PROVE TInv'
<1>0. /\ Wires /\ conns \in Nat /\ MaxConns \in Nat /\ MaxEvents \in Nat
  BY BoundsAssumption DEF TInv, Wires
<1>1. PICK e \in Event(conns'), c \in 0 .. conns' :
        /\ conns' = conns \/ (conns' = conns + 1 /\ conns < MaxConns)
        /\ Len(inbox[u]) < MaxEvents /\ inbox' = [inbox EXCEPT ![u] = Append(@, e)]
        /\ current' = [current EXCEPT ![u] = c]
        /\ had' = had \/ (had' = [had EXCEPT ![u] = @ \cup {e.conn}])
        /\ UNCHANGED <<rows, moved, cutOff, job, menu, faults>>
  BY Announced
<1>2. conns' \in 0 .. MaxConns /\ conns <= conns' /\ conns' \in Nat
  BY <1>0, <1>1 DEF Wires
<1>3. 0 .. conns \subseteq 0 .. conns' /\ 1 .. conns \subseteq 1 .. conns'
  BY <1>0, <1>2
<1>4. /\ Event(conns) \subseteq Event(conns') /\ Job(conns) \subseteq Job(conns')
      /\ Message(conns) \subseteq Message(conns')
  BY <1>3 DEF Event, Job, Message
<1>5. \A v \in Users : inbox[v] \in Seq(Event(conns')) /\ Len(inbox[v]) \in Nat
  BY <1>0, <1>4, WiderSeq, LenProperties DEF Wires
<1>6. Append(inbox[u], e) \in Seq(Event(conns')) /\ Len(Append(inbox[u], e)) = Len(inbox[u]) + 1
  BY <1>5, Pushed
<1>7. inbox \in [Users -> Seq(Event(conns'))] /\ inbox' \in [Users -> Seq(Event(conns'))]
  BY <1>0, <1>1, <1>5, <1>6 DEF Wires
<1>8. \A v \in Users : Len(inbox'[v]) <= MaxEvents
  <2> TAKE v \in Users
  <2>1. inbox'[v] = IF v = u THEN Append(inbox[u], e) ELSE inbox[v]
    BY <1>1, <1>7
  <2> QED BY <1>0, <1>1, <1>5, <1>6, <2>1 DEF Wires
<1>9. link' \in [Users -> 0 .. conns'] /\ current' \in [Users -> 0 .. conns']
  BY <1>0, <1>1, <1>3 DEF Wires, rows
<1>10. job' \in [Users -> Job(conns')] /\ messages' \subseteq Message(conns')
  BY <1>0, <1>1, <1>4 DEF Wires, rows
<1>13. had' \in [Users -> SUBSET (1 .. conns')] /\ moved' \subseteq 1 .. conns'
  <2>1. had \in [Users -> SUBSET (1 .. conns')] /\ e.conn \in 1 .. conns' /\ moved \subseteq 1 .. conns'
    BY <1>0, <1>3 DEF Wires, Event
  <2> QED BY <1>1, <2>1
<1>11. Wires'
  BY <1>2, <1>7, <1>8, <1>9, <1>10, <1>13 DEF Wires, Event, Job, Message
<1>12. Members' /\ Numbered' /\ Menu'
  BY <1>1 DEF TInv, Members, Numbered, Menu, rows, menu
<1> QED BY <1>11, <1>12 DEF TInv

\* The row that a saved message makes.
Row(u, chat, c) ==
  [id |-> Cardinality(messages) + 1, owner |-> u, chat |-> chat, conn |-> c,
   late |-> c \in moved, deleted |-> FALSE]

LEMMA SaveType == ASSUME TInv, NEW u \in Users, NEW chat \in Chats, Save(u, chat) PROVE TInv'
<1> DEFINE n == Cardinality(messages)
<1>0. /\ messages \subseteq Message(conns) /\ IsFiniteSet(messages) /\ n \in Nat
      /\ had \in [Users -> SUBSET (1 .. conns)] /\ conns \in Nat /\ MaxMessages \in Nat
      /\ \A k \in messages : k.id <= n
      /\ \A k, l \in messages : k.id = l.id => k = l
  BY FS_CardinalityType, BoundsAssumption DEF TInv, Wires, Numbered
<1>a. PICK c \in had[u] : messages' = messages \cup {Row(u, chat, c)}
  BY DEF Save, Row
<1> DEFINE m == Row(u, chat, c)
<1>1. /\ n < MaxMessages /\ messages' = messages \cup {m}
      /\ UNCHANGED <<member, link, connected, known, current, past, inbox, cutOff, job, menu,
                     conns, faults>>
  BY <1>a DEF Save
<1>2. m \in Message(conns) /\ m.id = n + 1
  BY <1>0, <1>1 DEF Message, Row
<1> HIDE DEF m
<1>3. \A k \in messages : k.id \in Nat
  BY <1>0 DEF Message
<1>4. m \notin messages
  BY <1>0, <1>2
<1>5. IsFiniteSet(messages') /\ Cardinality(messages') = n + 1
  BY <1>0, <1>1, <1>4, FS_AddElement
<1> HIDE DEF n
<1>6. \A k \in messages' : k.id <= n + 1
  BY <1>0, <1>1, <1>2, <1>3
<1>7. \A k, l \in messages' : k.id = l.id => k = l
  BY <1>0, <1>1, <1>2, <1>3
<1>8. Numbered'
  <2>1. n + 1 <= MaxMessages
    BY <1>0, <1>1
  <2> QED BY <1>5, <1>6, <1>7, <2>1 DEF Numbered
<1>9. Wires' /\ Members' /\ Menu'
  BY <1>0, <1>1, <1>2 DEF TInv, Wires, Members, Menu, menu
<1> QED BY <1>8, <1>9 DEF TInv

LEMMA FlagType == ASSUME TInv, NEW m \in messages, Flag(m) PROVE TInv'
<1> DEFINE n == Cardinality(messages)
           r == [m EXCEPT !.deleted = TRUE]
           R == messages \ {m}
<1>0. /\ messages \subseteq Message(conns) /\ IsFiniteSet(messages) /\ n \in Nat
      /\ n <= MaxMessages
      /\ \A k \in messages : k.id <= n
      /\ \A k, l \in messages : k.id = l.id => k = l
  BY FS_CardinalityType DEF TInv, Wires, Numbered
<1>1. /\ messages' = R \cup {r}
      /\ UNCHANGED <<member, link, connected, known, current, past, inbox, cutOff, job, menu,
                     conns, faults>>
  BY DEF Flag
<1>2. r \in Message(conns) /\ r.id = m.id
  BY <1>0 DEF Message
<1> HIDE DEF r
<1>3. IsFiniteSet(R) /\ Cardinality(R) = n - 1 /\ R \subseteq messages
  BY <1>0, FS_RemoveElement
<1>4. r \notin R
  BY <1>0, <1>2
<1>5. IsFiniteSet(R \cup {r}) /\ Cardinality(R \cup {r}) = Cardinality(R) + 1
  BY <1>3, <1>4, FS_AddElement
<1>6. Cardinality(messages') = n /\ IsFiniteSet(messages')
  BY <1>0, <1>1, <1>3, <1>5
<1>7. \A k \in messages' : k = r \/ k \in messages
  BY <1>1, <1>3
<1>8. \A k \in messages' : k.id <= n
  BY <1>0, <1>2, <1>7
<1>9. \A k, l \in messages' : k.id = l.id => k = l
  BY <1>0, <1>1, <1>2
<1> HIDE DEF n, R
<1>10. Numbered'
  BY <1>0, <1>6, <1>8, <1>9 DEF Numbered
<1>11. Wires' /\ Members' /\ Menu'
  BY <1>0, <1>1, <1>2, <1>7 DEF TInv, Wires, Members, Menu, menu
<1> QED BY <1>10, <1>11 DEF TInv

\* The first of the updates that wait is taken.
LEMMA Unqueued ==
  ASSUME TInv, NEW u \in Users, inbox[u] # <<>>, inbox' = [inbox EXCEPT ![u] = Tail(@)]
  PROVE  /\ inbox' \in [Users -> Seq(Event(conns))] /\ \A v \in Users : Len(inbox'[v]) <= MaxEvents
         /\ inbox'[u] = Tail(inbox[u]) /\ \A v \in Users \ {u} : inbox'[v] = inbox[v]
         /\ Head(inbox[u]) \in Event(conns)
         /\ Elems(inbox[u]) = {Head(inbox[u])} \cup Elems(inbox'[u])
         /\ IF inbox'[u] = <<>> THEN Newest(inbox[u]) = Head(inbox[u])
                                ELSE Newest(inbox[u]) = Newest(inbox'[u])
<1>0. /\ inbox \in [Users -> Seq(Event(conns))] /\ \A v \in Users : Len(inbox[v]) <= MaxEvents
      /\ MaxEvents \in Nat
  BY BoundsAssumption DEF TInv, Wires
<1>1. inbox[u] \in Seq(Event(conns))
  BY <1>0
<1>2. /\ Head(inbox[u]) \in Event(conns) /\ Tail(inbox[u]) \in Seq(Event(conns))
      /\ Len(Tail(inbox[u])) <= Len(inbox[u])
      /\ Elems(inbox[u]) = {Head(inbox[u])} \cup Elems(Tail(inbox[u]))
      /\ IF Tail(inbox[u]) = <<>> THEN Newest(inbox[u]) = Head(inbox[u])
                                  ELSE Newest(inbox[u]) = Newest(Tail(inbox[u]))
  BY <1>1, Popped
<1>3. inbox'[u] = Tail(inbox[u]) /\ \A v \in Users \ {u} : inbox'[v] = inbox[v]
  BY <1>0
<1>4. inbox' \in [Users -> Seq(Event(conns))]
  BY <1>0, <1>2
<1>5. \A v \in Users : Len(inbox'[v]) <= MaxEvents
  <2> TAKE v \in Users
  <2>1. CASE v = u
    <3>1. Len(inbox[u]) \in Nat /\ Len(Tail(inbox[u])) \in Nat /\ Len(inbox[u]) <= MaxEvents
      BY <1>0, <1>1, <1>2, LenProperties
    <3> QED BY <1>0, <1>2, <1>3, <2>1, <3>1
  <2> QED BY <1>0, <1>3, <2>1
<1> QED BY <1>2, <1>3, <1>4, <1>5

LEMMA PopsType == ASSUME TInv, NEW u \in Users, Pops(u) PROVE TInv'
<1>1. /\ inbox[u] # <<>> /\ inbox' = [inbox EXCEPT ![u] = Tail(@)]
      /\ UNCHANGED <<link, messages, current, past, job, menu, conns>>
  BY DEF Pops, HandleUnknown, HandleDisconnect, FailFirst, rows
<1>2. inbox' \in [Users -> Seq(Event(conns))] /\ \A v \in Users : Len(inbox'[v]) <= MaxEvents
  BY <1>1, Unqueued
<1>3. Wires' /\ Numbered'
  BY <1>1, <1>2 DEF TInv, Wires, Numbered
<1>5. Menu'
  <2>1. member' = member
    BY DEF Pops, HandleUnknown, HandleDisconnect, FailFirst, rows
  <2> QED BY <1>1, <2>1 DEF TInv, Menu, menu
<1>4. Members'
  BY BoundsAssumption DEF Pops, HandleUnknown, HandleDisconnect, FailFirst, rows, TInv, Members
<1> QED BY <1>3, <1>4, <1>5 DEF TInv

LEMMA RekeyEffect ==
  ASSUME TInv, NEW u \in Users, Rekey(u)
  PROVE  \E e \in Event(conns) :
           /\ e = Head(inbox[u]) /\ e.enabled
           /\ job[u] = Idle /\ inbox[u] # <<>> /\ inbox' = [inbox EXCEPT ![u] = Tail(@)]
           /\ messages' = IF link[u] = 0 THEN messages ELSE Moved(link[u], e.conn)
           /\ moved' = moved \cup ({link[u]} \ {0, e.conn})
           /\ job' \in [Users -> Job(conns)]
           /\ job'[u].pc = "store" /\ job'[u].conn = e.conn
           /\ \A v \in Users \ {u} : job'[v] = job[v]
           /\ UNCHANGED <<member, link, connected, known, current, had, cutOff, menu, conns, faults>>
<1>0. job \in [Users -> Job(conns)] /\ conns \in Nat
  BY DEF TInv, Wires
<1> DEFINE e == Head(inbox[u])
           j == [job[u] EXCEPT !.pc = "store", !.conn = e.conn]
<1>1. /\ e.enabled
      /\ job[u] = Idle /\ inbox[u] # <<>> /\ inbox' = [inbox EXCEPT ![u] = Tail(@)]
      /\ messages' = IF link[u] = 0 THEN messages ELSE Moved(link[u], e.conn)
      /\ moved' = moved \cup ({link[u]} \ {0, e.conn})
      /\ job' = [job EXCEPT ![u].pc = "store", ![u].conn = e.conn]
      /\ UNCHANGED <<member, link, connected, known, current, had, cutOff, menu, conns, faults>>
  BY DEF Rekey, NextUpdate
<1>2. e \in Event(conns)
  BY <1>1, Unqueued
<1> HIDE DEF e
<1>3. j \in Job(conns) /\ j.pc = "store" /\ j.conn = e.conn
  <2> DEFINE i == [job[u] EXCEPT !.pc = "store"]
  <2>1. i \in Job(conns) /\ i.pc = "store"
    BY <1>0 DEF Job
  <2>2. j = [i EXCEPT !.conn = e.conn]
    OBVIOUS
  <2>3. e.conn \in 0 .. conns
    BY <1>2 DEF Event
  <2> HIDE DEF i, j
  <2>4. [i EXCEPT !.conn = e.conn] \in Job(conns)
    BY <2>1, <2>3 DEF Job
  <2>5. [i EXCEPT !.conn = e.conn].pc = "store" /\ [i EXCEPT !.conn = e.conn].conn = e.conn
    BY <2>1 DEF Job
  <2> QED BY <2>2, <2>4, <2>5
<1>4. job' = [job EXCEPT ![u] = j]
  BY <1>0, <1>1
<1> HIDE DEF j
<1>5. job' \in [Users -> Job(conns)] /\ job'[u] = j /\ \A v \in Users \ {u} : job'[v] = job[v]
  BY <1>0, <1>3, <1>4
<1> QED BY <1>1, <1>2, <1>3, <1>5 DEF e

LEMMA RekeyType == ASSUME TInv, NEW u \in Users, Rekey(u) PROVE TInv'
<1>1. PICK e \in Event(conns) :
        /\ inbox[u] # <<>> /\ inbox' = [inbox EXCEPT ![u] = Tail(@)]
        /\ messages' = IF link[u] = 0 THEN messages ELSE Moved(link[u], e.conn)
        /\ moved' = moved \cup ({link[u]} \ {0, e.conn})
        /\ job' \in [Users -> Job(conns)] /\ job'[u].pc = "store" /\ job'[u].conn = e.conn
        /\ \A v \in Users \ {u} : job'[v] = job[v]
        /\ UNCHANGED <<member, link, connected, known, current, had, cutOff, menu, conns, faults>>
  BY RekeyEffect
<1>2. e.conn \in 1 .. conns /\ link[u] \in 0 .. conns /\ conns \in Nat
  BY DEF Event, TInv, Wires
<1>3. inbox' \in [Users -> Seq(Event(conns))] /\ \A v \in Users : Len(inbox'[v]) <= MaxEvents
  BY <1>1, Unqueued
<1>4. messages' \subseteq Message(conns) /\ Numbered'
  <2>1. CASE link[u] = 0
    BY <1>1, <2>1 DEF TInv, Wires, Numbered
  <2>2. CASE link[u] # 0
    <3>1. link[u] \in 1 .. conns /\ messages' = Moved(link[u], e.conn)
      BY <1>1, <1>2, <2>2
    <3>2. /\ messages' \subseteq Message(conns)
          /\ IsFiniteSet(messages') /\ Cardinality(messages') = Cardinality(messages)
          /\ \A m \in messages' : m.id <= Cardinality(messages)
          /\ \A m, n \in messages' : m.id = n.id => m = n
      BY <1>2, <3>1, Moving
    <3> QED BY <3>2 DEF TInv, Numbered
  <2> QED BY <2>1, <2>2
<1>5. Wires'
  <2>1. moved' \subseteq 1 .. conns
    <3>1. moved' \subseteq moved \cup ({link[u]} \ {0}) /\ moved \subseteq 1 .. conns
      BY <1>1 DEF TInv, Wires
    <3>2. \A x \in {link[u]} \ {0} : x \in 1 .. conns
      BY <1>2
    <3> QED BY <3>1, <3>2
  <2> QED BY <1>1, <1>3, <1>4, <2>1 DEF TInv, Wires
<1>6. Members'
  BY <1>1 DEF TInv, Members
<1>7. Menu'
  <2>1. u \in member
    BY DEF Rekey
  <2> QED BY <1>1, <1>2, <2>1 DEF TInv, Menu, menu
<1> QED BY <1>4, <1>5, <1>6, <1>7 DEF TInv

LEMMA IdleType == Idle.pc = "idle" /\ Idle.conn = 0 /\ \A n \in Nat : Idle \in Job(n)
BY BoundsAssumption DEF Idle, Job

\* A press counts what is found.
LEMMA PressEffect ==
  ASSUME TInv, NEW u \in Users, NEW kind, NEW chat \in Chats, NEW pc \in {"preview", "invoice"},
         Press(u, kind, chat, pc)
  PROVE  \E j \in Job(conns) :
           /\ job' = [job EXCEPT ![u] = j]
           /\ j.pc = pc /\ j.chat = chat /\ j.count = Ids(Found(u, chat)) /\ j.conn = 0
           /\ job[u] = Idle /\ page[u].kind = kind /\ chat \in page[u].chats
           /\ bill' = [bill EXCEPT ![u] = NoBill]
           /\ UNCHANGED <<rows, current, past, inbox, cutOff, page, conns, faults>>
<1> DEFINE n == Ids(Found(u, chat))
           a == [Idle EXCEPT !.pc = pc]
           b == [a EXCEPT !.chat = chat]
           j == [b EXCEPT !.count = n]
<1>1. n \in SUBSET (1 .. MaxMessages)
  <2>1. messages \subseteq Message(conns) /\ Found(u, chat) \subseteq messages
    BY DEF TInv, Wires, Found
  <2> QED BY <2>1 DEF Ids, Message
<1>2. Idle \in Job(conns) /\ Idle.conn = 0
  <2>1. conns \in Nat
    BY DEF TInv, Wires
  <2> QED BY <2>1, IdleType
<1>3. a \in Job(conns) /\ a.pc = pc /\ a.conn = 0
  BY <1>2 DEF Job
<1> HIDE DEF a, n
<1>4. b \in Job(conns) /\ b.pc = pc /\ b.conn = 0 /\ b.chat = chat
  BY <1>3 DEF Job
<1> HIDE DEF b
<1>5. j \in Job(conns) /\ j.pc = pc /\ j.conn = 0 /\ j.chat = chat /\ j.count = n
  BY <1>1, <1>4 DEF Job
<1>6. job' = [job EXCEPT ![u] = j]
  BY DEF Press, a, b, n
<1> HIDE DEF j
<1>7. /\ job[u] = Idle /\ page[u].kind = kind /\ chat \in page[u].chats
      /\ bill' = [bill EXCEPT ![u] = NoBill]
      /\ UNCHANGED <<rows, current, past, inbox, cutOff, page, conns, faults>>
  BY DEF Press
<1> QED BY <1>5, <1>6, <1>7 DEF n

LEMMA PressesType == ASSUME TInv, NEW u \in Users, Presses(u) PROVE TInv'
<1>1. PICK chat \in Chats : Press(u, "list", chat, "preview") \/ Press(u, "chat", chat, "invoice")
  BY DEF Presses, CountPreview, CountChat
<1>2. PICK j \in Job(conns) :
        /\ job' = [job EXCEPT ![u] = j] /\ j.pc \in {"preview", "invoice"} /\ j.chat \in Chats
        /\ bill' = [bill EXCEPT ![u] = NoBill]
        /\ UNCHANGED <<rows, current, past, inbox, cutOff, page, conns, faults>>
  BY <1>1, PressEffect
<1>3. job' \in [Users -> Job(conns)] /\ job'[u] = j /\ \A v \in Users \ {u} : job'[v] = job[v]
  BY <1>2 DEF TInv, Wires
<1>4. Members' /\ Wires' /\ Numbered'
  BY <1>2, <1>3 DEF TInv, Members, Wires, Numbered, rows
<1>5. Menu'
  <2>1. bill' \in [Users -> Bill]
    <3>1. NoBill \in Bill /\ bill \in [Users -> Bill]
      BY DEF Bill, TInv, Menu
    <3> QED BY <1>2, <3>1
  <2> QED BY <1>2, <1>3, <2>1 DEF TInv, Menu, rows
<1> QED BY <1>4, <1>5 DEF TInv

\* The job of a user is done.
LEMMA DoneType ==
  ASSUME TInv, NEW u \in Users, Done(u)
  PROVE  /\ job' \in [Users -> Job(conns)] /\ job'[u] = Idle /\ job'[u].pc = "idle" /\ job'[u].conn = 0
         /\ \A v \in Users \ {u} : job'[v] = job[v]
<1>0. conns \in Nat
  BY DEF TInv, Wires
<1>1. Idle \in Job(conns) /\ Idle.pc = "idle" /\ Idle.conn = 0 /\ job \in [Users -> Job(conns)]
  BY <1>0, IdleType DEF TInv, Wires
<1> QED BY <1>1 DEF Done

LEMMA StoreType == ASSUME TInv, NEW u \in Users, StoreLink(u) PROVE TInv'
<1>1. /\ link' = [link EXCEPT ![u] = job[u].conn] /\ connected' = connected \cup {u} /\ Done(u)
      /\ UNCHANGED <<member, messages, known, current, past, inbox, cutOff, menu, conns, faults>>
  BY DEF StoreLink
<1>2. job' \in [Users -> Job(conns)] /\ job'[u].pc = "idle" /\ \A v \in Users \ {u} : job'[v] = job[v]
  BY <1>1, DoneType
<1>3. job[u].conn \in 0 .. conns
  BY DEF TInv, Wires, Job
<1>4. Members' /\ Wires' /\ Numbered'
  <2>1. u \in member
    BY DEF StoreLink, TInv, Menu
  <2> QED BY <1>1, <1>2, <1>3, <2>1 DEF TInv, Members, Wires, Numbered
<1>5. Menu'
  BY <1>1, <1>2 DEF TInv, Menu, menu
<1> QED BY <1>4, <1>5 DEF TInv

LEMMA BillCount == \A s \in SUBSET (1 .. MaxMessages) : s # {} => s \in Bill
BY DEF Bill

LEMMA DoneMenuType ==
  ASSUME TInv, NEW u \in Users, ShowPreview(u) \/ Invoice(u) \/ Fail(u)
  PROVE  TInv'
<1>1. Done(u) /\ UNCHANGED <<rows, current, past, inbox, conns>>
  BY DEF ShowPreview, Invoice, Fail
<1>2. job' \in [Users -> Job(conns)] /\ job'[u].pc = "idle" /\ \A v \in Users \ {u} : job'[v] = job[v]
  BY <1>1, DoneType
<1>3. Wires' /\ Numbered'
  BY <1>1, <1>2 DEF TInv, Wires, Numbered, rows
<1>4. Members'
  BY BoundsAssumption DEF TInv, Members, ShowPreview, Invoice, Fail, rows
<1>5. job[u] \in Job(conns) /\ page \in [Users -> Page] /\ bill \in [Users -> Bill]
      /\ job[u].count \subseteq 1 .. MaxMessages
  BY DEF TInv, Wires, Menu, Job
<1>6. page' \in [Users -> Page] /\ bill' \in [Users -> Bill]
  <2>1. CASE ShowPreview(u)
    <3> DEFINE r == [kind |-> "chat", chats |-> {job[u].chat}, count |-> job[u].count]
    <3>1. job[u].chat \in Chats
      BY <2>1 DEF ShowPreview, TInv, Menu
    <3>2. r \in Page
      BY <1>5, <3>1 DEF Page
    <3>3. page' = [page EXCEPT ![u] = r] /\ bill' = bill
      BY <2>1 DEF ShowPreview
    <3> HIDE DEF r
    <3> QED BY <1>5, <3>2, <3>3
  <2>2. CASE Invoice(u)
    <3>1. page' = page /\ bill' = IF job[u].count = {} THEN bill ELSE [bill EXCEPT ![u] = job[u].count]
      BY <2>2 DEF Invoice
    <3>2. job[u].count # {} => job[u].count \in Bill
      BY <1>5, BillCount
    <3> DEFINE n == job[u].count
    <3>3. page' = page /\ bill' = IF n = {} THEN bill ELSE [bill EXCEPT ![u] = n]
      BY <3>1
    <3>4. n # {} => n \in Bill
      BY <3>2
    <3> HIDE DEF n
    <3>5. bill' \in [Users -> Bill]
      <4>1. CASE n = {}
        BY <1>5, <3>3, <4>1
      <4>2. CASE n # {}
        <5>1. bill' = [bill EXCEPT ![u] = n] /\ n \in Bill /\ bill \in [Users -> Bill]
          BY <1>5, <3>3, <3>4, <4>2
        <5> QED BY <5>1
      <4> QED BY <4>1, <4>2
    <3> QED BY <1>5, <3>3, <3>5
  <2>3. CASE Fail(u)
    BY <1>5, <2>3 DEF Fail, menu
  <2> QED BY <2>1, <2>2, <2>3
<1>7. Menu'
  BY <1>1, <1>2, <1>6 DEF TInv, Menu, rows
<1> QED BY <1>3, <1>4, <1>7 DEF TInv

LEMMA RowsType ==
  ASSUME TInv, NEW u \in Users, ListChats(u) \/ DeleteData(u) \/ Return(u)
  PROVE  TInv'
<1>0. /\ page \in [Users -> Page] /\ bill \in [Users -> Bill]
      /\ link \in [Users -> 0 .. conns] /\ conns \in Nat /\ known \subseteq Chats
      /\ NoBill \in Bill
  BY DEF TInv, Wires, Menu, Members, Bill
<1>1. UNCHANGED <<messages, known, current, past, inbox, job, conns>>
  BY DEF ListChats, DeleteData, Return, rows
<1>2. link' \in [Users -> 0 .. conns] /\ page' \in [Users -> Page]
      /\ bill' \in [Users -> Bill]
  <2>1. CASE ListChats(u)
    <3> DEFINE r == [kind |-> "list", chats |-> {c \in known : Related(u, c)}, count |-> {}]
    <3>1. r \in Page
      BY <1>0 DEF Page
    <3>2. page' = [page EXCEPT ![u] = r] /\ bill' = [bill EXCEPT ![u] = NoBill] /\ link' = link
      BY <2>1 DEF ListChats, rows
    <3> HIDE DEF r
    <3> QED BY <1>0, <3>1, <3>2
  <2>2. CASE DeleteData(u)
    BY <1>0, <2>2 DEF DeleteData, menu
  <2>3. CASE Return(u)
    BY <1>0, <2>3 DEF Return, menu
  <2> QED BY <2>1, <2>2, <2>3
<1>3. Wires' /\ Numbered'
  BY <1>1, <1>2 DEF TInv, Wires, Numbered
<1>4. Members'
  BY DEF TInv, Members, ListChats, DeleteData, Return, rows
<1>5. Menu'
  <2>1. \A v \in Users : v \in member /\ job[v].pc = "store" => v \in member'
    BY IdleType DEF ListChats, DeleteData, Return, rows
  <2> QED BY <1>1, <1>2, <2>1 DEF TInv, Menu
<1> QED BY <1>3, <1>4, <1>5 DEF TInv

LEMMA OthersType ==
  ASSUME TInv, NEW chat \in Chats, OtherLeaves(chat) \/ OtherJoins(chat)
  PROVE  TInv'
<1>1. UNCHANGED <<member, link, connected, messages, current, past, inbox, cutOff, job, menu, conns, faults>>
      /\ known' \subseteq known \cup {chat}
  BY DEF OtherLeaves, OtherJoins
<1>2. Wires' /\ Numbered' /\ Menu'
  BY <1>1 DEF TInv, Wires, Numbered, Menu, menu
<1>3. Members'
  BY <1>1 DEF TInv, Members
<1> QED BY <1>2, <1>3 DEF TInv

LEMMA InitType == Init => TInv
<1> SUFFICES ASSUME Init PROVE TInv
  OBVIOUS
<1>1. 0 \in Nat /\ 0 \in 0 .. MaxConns /\ 0 \in 0 .. MaxFaults /\ 0 <= MaxEvents
      /\ 0 <= MaxMessages
  BY BoundsAssumption
<1>2. IsFiniteSet({}) /\ Cardinality({}) = 0
  BY FS_EmptySet
<1>3. <<>> \in Seq(Event(0)) /\ Len(<<>>) = 0 /\ Idle \in Job(0) /\ Idle.pc = "idle"
  BY <1>1, IdleType
<1>4. NoPage \in Page /\ NoBill \in Bill
  BY DEF NoPage, Page, Bill
<1>5. Members /\ Numbered
  BY <1>1, <1>2 DEF Init, Members, Numbered
<1>6. Wires
  BY <1>1, <1>3 DEF Init, Wires
<1>7. Menu
  BY <1>3, <1>4 DEF Init, Menu
<1> QED BY <1>5, <1>6, <1>7 DEF TInv

LEMMA NextType == ASSUME TInv, Next PROVE TInv'
BY Steps, TelegramType, PopsType, RekeyType, StoreType, RowsType, DoneMenuType, PressesType,
  SaveType, FlagType, OthersType

LEMMA StutterType == ASSUME TInv, UNCHANGED vars PROVE TInv'
BY DEF TInv, Members, Wires, Numbered, Menu, vars, rows, menu

\* Every variable keeps its type; in particular no invoice is for an empty chat.
THEOREM TypeCorrect == Spec => []TypeOK
<1>1. TInv /\ [Next]_vars => TInv'
  BY NextType, StutterType
<1>2. TInv => TypeOK
  BY Typed
<1> QED BY <1>1, <1>2, InitType, PTL DEF Spec

-----------------------------------------------------------------------------
(* Connections belong to one user.                                         *)

\* A user whom a step leaves alone.
Same(v) ==
  /\ link'[v] = link[v] /\ current'[v] = current[v] /\ inbox'[v] = inbox[v] /\ had'[v] = had[v]
  /\ job'[v] = job[v] /\ page'[v] = page[v] /\ (v \in connected' <=> v \in connected)

\* A flag is never taken back.
Later == \A m \in messages, n \in messages' : m.id = n.id /\ m.deleted => n.deleted

LEMMA SameUser ==
  ASSUME NEW v \in Users, Same(v)
  PROVE  /\ HeadConn(v)' = HeadConn(v) /\ Ahead(v)' = Ahead(v)
         /\ Followed(v) => Followed(v)'
BY DEF Same, HeadConn, Ahead, Followed, Newest, Elems

\* A message under a connection of a user is his.
LEMMA Owned ==
  ASSUME TInv, Separate, NEW v \in Users, NEW m \in messages, m.conn \in Mine(v)
  PROVE  m.owner = v
<1>1. m.owner \in Users /\ m.conn # 0
  BY DEF TInv, Wires, Message
<1>2. m.conn \in Mine(m.owner)
  BY DEF Mine
<1> QED BY <1>1, <1>2 DEF Separate

LEMMA Heads == ASSUME NEW v \in Users PROVE HeadConn(v) \in Mine(v) /\ HeadConn(v) \in Ahead(v)
BY DEF HeadConn, Mine, Ahead

LEMMA UnderIs ==
  ASSUME NEW v, NEW c, NEW i
  PROVE  i \in Under(v, c) <=> \E m \in messages : m.id = i /\ m.chat = c /\ m.conn = HeadConn(v)
BY DEF Under, Ids

LEMMA UnderWillBe ==
  ASSUME NEW v, NEW c, NEW m \in messages', m.chat = c, m.conn = HeadConn(v)'
  PROVE  m.id \in Under(v, c)'
BY DEF Under, Ids

\* What is shown stays true when nothing is lost and no flag is taken back.
LEMMA ShownKeeps ==
  ASSUME NEW v \in Users, Shown(v), Later, page'[v] = page[v], job'[v] = job[v],
         \A c : Under(v, c) \subseteq Under(v, c)'
  PROVE  Shown(v)'
<1>1. page[v].kind = "chat" => \A c \in page[v].chats : page[v].count \subseteq Under(v, c)'
  BY DEF Shown
<1>2. job[v].pc = "preview" => job[v].count \subseteq Under(v, job[v].chat)'
  BY DEF Shown
<1>3. ASSUME job[v].pc = "invoice", NEW n \in messages', n.id \in page[v].count
      PROVE  n.id \in job[v].count \/ n.deleted
  <2>1. /\ page[v].kind = "chat" /\ job[v].chat \in page[v].chats
        /\ \A m \in messages : m.id \in page[v].count => m.id \in job[v].count \/ m.deleted
    BY <1>3 DEF Shown
  <2>2. n.id \in Under(v, job[v].chat)
    BY <1>3, <2>1 DEF Shown
  <2>3. PICK m \in messages : m.id = n.id
    BY <2>2, UnderIs
  <2> QED BY <1>3, <2>1, <2>3 DEF Later
<1>4. job[v].pc = "invoice" => page[v].kind = "chat" /\ job[v].chat \in page[v].chats
  BY DEF Shown
<1> QED BY <1>1, <1>2, <1>3, <1>4 DEF Shown

\* One user acts, and keeps to connections that are his or nobody's.
LEMMA Alone ==
  ASSUME CInv, TInv', Later, moved \subseteq moved', NEW u \in Users, NEW F,
         \A v \in Users \ {u} :
           /\ Same(v) /\ (v \in member => v \in member') /\ (v \in cutOff => v \in cutOff')
           /\ Mine(v) \cap F \subseteq {0}
           /\ \A m \in messages' : m.owner = v => m \in messages
           /\ \A m \in messages : m.owner = v => m \in messages',
         Mine(u)' \subseteq Mine(u) \cup F,
         u \notin cutOff' => u \in member' /\ Followed(u)' /\ Carried(u)' /\ Shown(u)'
  PROVE  Separate' /\ Followers'
<1>1. \A v \in Users \ {u} : Mine(v)' \subseteq Mine(v)
  BY DEF Same, Mine
<1>2. Separate'
  BY <1>1 DEF CInv, Separate
<1>3. ASSUME NEW v \in Users \ {u}, v \notin cutOff'
      PROVE  v \in member' /\ Followed(v)' /\ Carried(v)' /\ Shown(v)'
  <2>1. Same(v) /\ v \in Users /\ v \in member' /\ Followed(v) /\ Carried(v) /\ Shown(v)
    BY <1>3 DEF CInv, Followers
  <2>2. HeadConn(v)' = HeadConn(v) /\ Ahead(v)' = Ahead(v) /\ Followed(v)'
    BY <2>1, SameUser
  <2>3. Carried(v)'
    BY <2>1, <2>2 DEF Carried, Same
  <2>4. ASSUME NEW c PROVE Under(v, c) \subseteq Under(v, c)'
    <3> SUFFICES ASSUME NEW i \in Under(v, c) PROVE i \in Under(v, c)'
      OBVIOUS
    <3>1. PICK m \in messages : m.id = i /\ m.chat = c /\ m.conn = HeadConn(v)
      BY UnderIs
    <3>2. m.owner = v
      BY <2>1, <3>1, Heads, Owned DEF CInv
    <3>3. m \in messages' /\ m.conn = HeadConn(v)'
      BY <2>2, <3>1, <3>2
    <3> QED BY <3>1, <3>3, UnderWillBe
  <2>5. Shown(v)'
    BY <2>1, <2>4, ShownKeeps DEF Same
  <2> QED BY <2>1, <2>2, <2>3, <2>5
<1>4. Followers'
  BY <1>3 DEF Followers
<1> QED BY <1>2, <1>4

LEMMA Unflagged == ASSUME TInv, messages' = messages PROVE Later
BY DEF TInv, Numbered, Later

LEMMA TelegramStep ==
  ASSUME CInv, TInv', NEW u \in Users, Telegram(u)
  PROVE  Separate' /\ Followers'
<1>0. /\ TInv /\ conns \in Nat /\ current \in [Users -> 0 .. conns]
      /\ inbox \in [Users -> Seq(Event(conns))] /\ had \in [Users -> SUBSET (1 .. conns)]
  BY DEF CInv, TInv, Wires
<1>1. PICK e \in Event(conns'), c \in 0 .. conns' :
        /\ e.enabled <=> c # 0
        /\ e.enabled => e.conn = c
        /\ \/ conns' = conns /\ e.conn = current[u]
           \/ conns' = conns + 1 /\ conns < MaxConns /\ e.conn = conns + 1
        /\ Len(inbox[u]) < MaxEvents /\ inbox' = [inbox EXCEPT ![u] = Append(@, e)]
        /\ current' = [current EXCEPT ![u] = c]
        /\ \/ had' = had
           \/ had' = [had EXCEPT ![u] = @ \cup {e.conn}] /\ e.enabled
        /\ UNCHANGED <<rows, moved, cutOff, job, menu, faults>>
  BY <1>0, Announced
<1>2. /\ UNCHANGED <<member, link, connected, messages, moved, cutOff, job, page>>
      /\ inbox'[u] = Append(inbox[u], e) /\ current'[u] = c
      /\ had'[u] \subseteq had[u] \cup {e.conn} /\ (had'[u] # had[u] => e.enabled)
      /\ \A v \in Users \ {u} : Same(v)
  BY <1>0, <1>1 DEF rows, menu, Same
<1>3. /\ inbox'[u] # <<>> /\ Newest(inbox'[u]) = e
      /\ Elems(inbox'[u]) = Elems(inbox[u]) \cup {e}
  <2>1. Event(conns) \subseteq Event(conns')
    BY <1>0, <1>1 DEF Event
  <2>2. inbox[u] \in Seq(Event(conns'))
    BY <1>0, <2>1, WiderSeq
  <2> QED BY <1>2, <2>2, Pushed
<1>4. Mine(u)' \subseteq Mine(u) \cup {0, e.conn}
  BY <1>1, <1>2, <1>3 DEF Mine
<1>5. \A v \in Users \ {u} : Mine(v) \cap {0, e.conn} \subseteq {0}
  <2>1. CASE e.conn = current[u]
    <3>1. e.conn \in Mine(u)
      BY <2>1 DEF Mine
    <3> QED BY <3>1 DEF CInv, Separate
  <2>2. CASE e.conn = conns + 1
    <3> SUFFICES ASSUME NEW v \in Users, conns + 1 \in Mine(v) PROVE FALSE
      BY <2>2
    <3>1. /\ link[v] \in 0 .. conns /\ current[v] \in 0 .. conns /\ job[v] \in Job(conns)
          /\ messages \subseteq Message(conns) /\ inbox[v] \in Seq(Event(conns))
          /\ had[v] \subseteq 1 .. conns
      BY <1>0 DEF TInv, Wires
    <3>2. \A f \in Elems(inbox[v]) : f \in Event(conns)
      BY <3>1, LenProperties DEF Elems
    <3>3. \A k \in Mine(v) : k \in 0 .. conns
      BY <1>0, <3>1, <3>2 DEF Mine, Event, Job, Message
    <3> QED BY <1>0, <3>3
  <2> QED BY <1>1, <2>1, <2>2
<1>6. ASSUME u \notin cutOff' PROVE u \in member' /\ Followed(u)' /\ Carried(u)' /\ Shown(u)'
  <2>1. u \in member /\ Followed(u) /\ Carried(u) /\ Shown(u)
    BY <1>2, <1>6 DEF CInv, Followers
  <2>2. HeadConn(u)' = HeadConn(u)
    BY <1>2 DEF HeadConn
  <2>3. Ahead(u) \subseteq Ahead(u)' /\ (e.enabled => e.conn \in Ahead(u)')
    BY <1>3, <2>2 DEF Ahead
  <2>4. Carried(u)'
    BY <1>2, <2>1, <2>3 DEF Carried
  <2>5. Followed(u)'
    BY <1>1, <1>2, <1>3 DEF Followed
  <2>6. \A k : Under(u, k)' = Under(u, k)
    BY <1>2, <2>2 DEF Under, Ids
  <2>7. Shown(u)'
    BY <1>0, <1>2, <2>1, <2>6, Unflagged, ShownKeeps
  <2> QED BY <1>2, <2>1, <2>4, <2>5, <2>7
<1>7. \A v \in Users \ {u} :
        /\ Same(v) /\ (v \in member => v \in member') /\ (v \in cutOff => v \in cutOff')
        /\ Mine(v) \cap {0, e.conn} \subseteq {0}
        /\ \A m \in messages' : m.owner = v => m \in messages
        /\ \A m \in messages : m.owner = v => m \in messages'
  BY <1>2, <1>5
<1>8. Later /\ moved \subseteq moved'
  BY <1>0, <1>2, Unflagged
<1> QED BY <1>4, <1>6, <1>7, <1>8, Alone

LEMMA SaveStep ==
  ASSUME CInv, TInv', NEW u \in Users, NEW chat \in Chats, Save(u, chat)
  PROVE  Separate' /\ Followers'
<1>0. TInv /\ had \in [Users -> SUBSET (1 .. conns)]
  BY DEF CInv, TInv, Wires
<1>1. PICK c \in had[u] : messages' = messages \cup {Row(u, chat, c)}
  BY DEF Save, Row
<1> DEFINE k == Row(u, chat, c)
<1>2. k.owner = u /\ k.conn = c /\ (~k.late => c \notin moved)
  BY DEF Row
<1>3. /\ messages' = messages \cup {k}
      /\ UNCHANGED <<member, link, connected, known, current, past, inbox, cutOff, job, page>>
  <2>1. UNCHANGED <<member, link, connected, known, current, inbox, cutOff, job, page>>
    BY DEF Save, menu
  <2>2. UNCHANGED <<had, moved>>
    BY DEF Save
  <2> QED BY <1>1, <2>1, <2>2
<1> HIDE DEF k
<1>4. \A v \in Users : Same(v)
  BY <1>3 DEF Same
<1>5. Mine(u)' \subseteq Mine(u) \cup {}
  BY <1>2, <1>3 DEF Mine
<1>6. Later /\ moved \subseteq moved'
  <2>1. \A m, n \in messages' : m.id = n.id => m = n
    BY DEF TInv, Numbered
  <2> QED BY <1>3, <2>1 DEF Later
<1>7. ASSUME u \notin cutOff' PROVE u \in member' /\ Followed(u)' /\ Carried(u)' /\ Shown(u)'
  <2>1. u \in member /\ Followed(u) /\ Carried(u) /\ Shown(u)
    BY <1>3, <1>7 DEF CInv, Followers
  <2>2. HeadConn(u)' = HeadConn(u) /\ Ahead(u)' = Ahead(u) /\ Followed(u)'
    BY <1>4, <2>1, SameUser
  <2>3. Carried(u)'
    BY <1>2, <1>3, <2>1, <2>2 DEF Carried
  <2>4. \A x : Under(u, x) \subseteq Under(u, x)'
    BY <1>3, <2>2 DEF Under, Ids
  <2>5. Shown(u)'
    BY <1>3, <1>6, <2>1, <2>4, ShownKeeps
  <2> QED BY <1>3, <2>1, <2>2, <2>3, <2>5
<1>8. \A v \in Users \ {u} :
        /\ Same(v) /\ (v \in member => v \in member') /\ (v \in cutOff => v \in cutOff')
        /\ Mine(v) \cap {} \subseteq {0}
        /\ \A m \in messages' : m.owner = v => m \in messages
        /\ \A m \in messages : m.owner = v => m \in messages'
  BY <1>2, <1>3, <1>4
<1> QED BY <1>5, <1>6, <1>7, <1>8, Alone

LEMMA FlagStep ==
  ASSUME CInv, TInv', NEW k \in messages, Flag(k)
  PROVE  Separate' /\ Followers'
<1> DEFINE r == [k EXCEPT !.deleted = TRUE]
           u == k.owner
<1>0. TInv /\ messages \subseteq Message(conns)
  BY DEF CInv, TInv, Wires
<1>1. /\ messages' = (messages \ {k}) \cup {r}
      /\ UNCHANGED <<member, link, connected, known, current, past, inbox, cutOff, job, page>>
  BY DEF Flag, menu
<1>2. /\ u \in Users /\ r.owner = u /\ r.conn = k.conn /\ r.chat = k.chat /\ r.id = k.id
      /\ r.late = k.late /\ r.deleted
  BY <1>0 DEF Message
<1> HIDE DEF r, u
<1>3. \A v \in Users : Same(v)
  BY <1>1 DEF Same
<1>4. Mine(u)' \subseteq Mine(u) \cup {}
  <2>1. \A m \in messages' : m.owner = u => m.conn \in Mine(u)
    BY <1>1, <1>2 DEF Mine, u
  <2> QED BY <1>1, <2>1 DEF Mine
<1>5. Later /\ moved \subseteq moved'
  <2>1. \A m, n \in messages : m.id = n.id => m = n
    BY <1>0 DEF TInv, Numbered
  <2> QED BY <1>1, <1>2, <2>1 DEF Later
<1>6. ASSUME u \notin cutOff' PROVE u \in member' /\ Followed(u)' /\ Carried(u)' /\ Shown(u)'
  <2>1. u \in member /\ Followed(u) /\ Carried(u) /\ Shown(u)
    BY <1>1, <1>2, <1>6 DEF CInv, Followers
  <2>2. HeadConn(u)' = HeadConn(u) /\ Ahead(u)' = Ahead(u) /\ Followed(u)'
    BY <1>2, <1>3, <2>1, SameUser
  <2>3. Carried(u)'
    <3>1. had'[u] \ moved' \subseteq Ahead(u)'
      BY <1>1, <2>1, <2>2 DEF Carried
    <3>2. \A m \in messages' : m.owner = u /\ ~m.late => m.conn \in Ahead(u)'
      BY <1>1, <1>2, <2>1, <2>2 DEF Carried, u
    <3> QED BY <3>1, <3>2 DEF Carried
  <2>4. ASSUME NEW x PROVE Under(u, x) \subseteq Under(u, x)'
    <3> SUFFICES ASSUME NEW i \in Under(u, x) PROVE i \in Under(u, x)'
      OBVIOUS
    <3>1. PICK m \in messages : m.id = i /\ m.chat = x /\ m.conn = HeadConn(u)
      BY UnderIs
    <3>2. PICK n \in messages' : n.id = i /\ n.chat = x /\ n.conn = HeadConn(u)'
      BY <1>1, <1>2, <2>2, <3>1
    <3> QED BY <3>2, UnderWillBe
  <2>5. Shown(u)'
    BY <1>1, <1>2, <1>5, <2>1, <2>4, ShownKeeps
  <2> QED BY <1>1, <2>1, <2>2, <2>3, <2>5
<1>7. \A v \in Users \ {u} :
        /\ Same(v) /\ (v \in member => v \in member') /\ (v \in cutOff => v \in cutOff')
        /\ Mine(v) \cap {} \subseteq {0}
        /\ \A m \in messages' : m.owner = v => m \in messages
        /\ \A m \in messages : m.owner = v => m \in messages'
  BY <1>1, <1>2, <1>3 DEF u
<1> QED BY <1>2, <1>4, <1>5, <1>6, <1>7, Alone

LEMMA PopsStep ==
  ASSUME CInv, TInv', NEW u \in Users, Pops(u)
  PROVE  Separate' /\ Followers'
<1>0. TInv
  BY DEF CInv
<1>1. /\ inbox[u] # <<>> /\ inbox' = [inbox EXCEPT ![u] = Tail(@)]
      /\ UNCHANGED <<member, link, messages, current, had, moved, job, page>>
      /\ connected' = connected \/ connected' = connected \ {u}
      /\ cutOff' = cutOff \/ cutOff' = cutOff \cup {u}
  BY DEF Pops, HandleUnknown, HandleDisconnect, FailFirst, rows, menu
<1>2. /\ \A v \in Users \ {u} : inbox'[v] = inbox[v]
      /\ Elems(inbox[u]) = {Head(inbox[u])} \cup Elems(inbox'[u])
      /\ IF inbox'[u] = <<>> THEN Newest(inbox[u]) = Head(inbox[u])
                             ELSE Newest(inbox[u]) = Newest(inbox'[u])
  BY <1>0, <1>1, Unqueued
<1>3. \A v \in Users \ {u} : Same(v)
  BY <1>1, <1>2 DEF Same
<1>4. Mine(u)' \subseteq Mine(u) \cup {}
  BY <1>1, <1>2 DEF Mine
<1>5. Later /\ moved \subseteq moved'
  BY <1>0, <1>1, Unflagged
<1>6. ASSUME u \notin cutOff' PROVE u \in member' /\ Followed(u)' /\ Carried(u)' /\ Shown(u)'
  <2>1. u \in member /\ Followed(u) /\ Carried(u) /\ Shown(u)
    BY <1>1, <1>6 DEF CInv, Followers
  <2>2. ~Head(inbox[u]).enabled /\ connected' = connected \ {u} /\ job[u] = Idle
    BY <1>6, <2>1 DEF Pops, HandleUnknown, HandleDisconnect, FailFirst, NextUpdate
  <2>3. HeadConn(u)' = HeadConn(u) /\ \A c : Under(u, c)' = Under(u, c)
    BY <1>1 DEF HeadConn, Under, Ids
  <2>4. Ahead(u)' = Ahead(u)
    BY <1>2, <2>2, <2>3 DEF Ahead
  <2>5. Carried(u)'
    BY <1>1, <2>1, <2>4 DEF Carried
  <2>6. Shown(u)'
    BY <1>1, <1>5, <2>1, <2>3, ShownKeeps
  <2>7. Followed(u)'
    BY <1>1, <1>2, <2>1, <2>2, IdleType DEF Followed
  <2> QED BY <1>1, <2>1, <2>5, <2>6, <2>7
<1>7. \A v \in Users \ {u} :
        /\ Same(v) /\ (v \in member => v \in member') /\ (v \in cutOff => v \in cutOff')
        /\ Mine(v) \cap {} \subseteq {0}
        /\ \A m \in messages' : m.owner = v => m \in messages
        /\ \A m \in messages : m.owner = v => m \in messages'
  BY <1>1, <1>3
<1> QED BY <1>4, <1>5, <1>6, <1>7, Alone

\* A message as the UPDATE leaves it.
Moved1(m, from, to) == IF m.conn = from THEN [m EXCEPT !.conn = to] ELSE m

LEMMA MovedOne ==
  ASSUME TInv, NEW m \in messages, NEW from \in 1 .. conns, NEW to \in 1 .. conns
  PROVE  /\ Moved1(m, from, to).id = m.id /\ Moved1(m, from, to).owner = m.owner
         /\ Moved1(m, from, to).chat = m.chat /\ Moved1(m, from, to).late = m.late
         /\ Moved1(m, from, to).deleted = m.deleted
         /\ m.conn = from => Moved1(m, from, to).conn = to
         /\ m.conn # from => Moved1(m, from, to) = m
BY DEF TInv, Wires, Message, Moved1

\* All of a user's messages that are found before his connection is changed are found after.
LEMMA RekeyStep ==
  ASSUME CInv, TInv', NEW u \in Users, Rekey(u)
  PROVE  Separate' /\ Followers'
<1>0. TInv /\ Separate /\ link \in [Users -> 0 .. conns] /\ conns \in Nat
  BY DEF CInv, TInv, Wires
<1>1. PICK e \in Event(conns) :
        /\ e = Head(inbox[u]) /\ e.enabled
        /\ job[u] = Idle /\ inbox[u] # <<>> /\ inbox' = [inbox EXCEPT ![u] = Tail(@)]
        /\ messages' = IF link[u] = 0 THEN messages ELSE Moved(link[u], e.conn)
        /\ moved' = moved \cup ({link[u]} \ {0, e.conn})
        /\ job' \in [Users -> Job(conns)]
        /\ job'[u].pc = "store" /\ job'[u].conn = e.conn
        /\ \A v \in Users \ {u} : job'[v] = job[v]
        /\ UNCHANGED <<member, link, connected, known, current, had, cutOff, menu, conns, faults>>
  BY <1>0, RekeyEffect
<1>2. /\ \A v \in Users \ {u} : inbox'[v] = inbox[v]
      /\ Elems(inbox[u]) = {e} \cup Elems(inbox'[u])
      /\ IF inbox'[u] = <<>> THEN Newest(inbox[u]) = e ELSE Newest(inbox[u]) = Newest(inbox'[u])
  BY <1>0, <1>1, Unqueued
<1>3. /\ \A v \in Users \ {u} : Same(v) /\ page'[u] = page[u]
      /\ UNCHANGED <<member, link, connected, current, had, cutOff, page>>
  BY <1>1, <1>2 DEF Same, menu
<1>4. e.conn \in 1 .. conns /\ e.conn # 0 /\ e.conn \in Mine(u) /\ link[u] \in Mine(u)
  BY <1>0, <1>2 DEF Event, Mine
<1>5. link[u] # 0 => link[u] \in 1 .. conns
  BY <1>0
<1>6. ASSUME NEW m \in messages'
      PROVE  \E n \in messages :
               /\ m.id = n.id /\ m.owner = n.owner /\ m.late = n.late /\ m.deleted = n.deleted
               /\ n.owner # u => m = n
               /\ m.conn = e.conn \/ (m = n /\ (link[u] # 0 => n.conn # link[u]))
  <2>1. CASE link[u] = 0
    BY <1>1, <2>1
  <2>2. CASE link[u] # 0
    <3>1. PICK n \in messages : m = Moved1(n, link[u], e.conn)
      BY <1>1, <2>2 DEF Moved, Moved1
    <3>2. /\ m.id = n.id /\ m.owner = n.owner /\ m.late = n.late /\ m.deleted = n.deleted
          /\ n.conn = link[u] => m.conn = e.conn
          /\ n.conn # link[u] => m = n
      BY <1>0, <1>4, <1>5, <2>2, <3>1, MovedOne
    <3>3. n.conn = link[u] => n.owner = u
      BY <1>0, <1>4, Owned
    <3> QED BY <3>2, <3>3
  <2> QED BY <2>1, <2>2
<1>7. ASSUME NEW v \in Users \ {u}, NEW m \in messages, m.owner = v PROVE m \in messages'
  <2>1. CASE link[u] = 0
    BY <1>1, <2>1
  <2>2. CASE link[u] # 0
    <3>1. m.conn # link[u]
      BY <1>0, <1>4, <1>7, Owned
    <3>2. Moved1(m, link[u], e.conn) = m
      BY <3>1 DEF Moved1
    <3> QED BY <1>1, <2>2, <3>2 DEF Moved, Moved1
  <2> QED BY <2>1, <2>2
<1>8. Mine(u)' \subseteq Mine(u) \cup {}
  <2>1. \A m \in messages' : m.owner = u => m.conn \in Mine(u)
    BY <1>4, <1>6 DEF Mine
  <2>2. \A f \in Elems(inbox'[u]) : f.conn \in Mine(u)
    BY <1>2 DEF Mine
  <2>3. /\ link'[u] \in Mine(u) /\ current'[u] \in Mine(u) /\ job'[u].conn \in Mine(u)
        /\ had'[u] \subseteq Mine(u)
    BY <1>1, <1>3, <1>4 DEF Mine
  <2> QED BY <2>1, <2>2, <2>3 DEF Mine
<1>9. Later /\ moved \subseteq moved'
  <2>1. \A m, n \in messages : m.id = n.id => m = n
    BY <1>0 DEF TInv, Numbered
  <2>2. Later
    <3> SUFFICES ASSUME NEW m \in messages, NEW n \in messages', m.id = n.id, m.deleted
                 PROVE  n.deleted
      BY DEF Later
    <3>1. PICK k \in messages : n.id = k.id /\ n.deleted = k.deleted
      BY <1>6
    <3> QED BY <2>1, <3>1
  <2> QED BY <1>1, <2>2
<1>10. ASSUME u \notin cutOff' PROVE u \in member' /\ Followed(u)' /\ Carried(u)' /\ Shown(u)'
  <2>1. u \in member /\ Followed(u) /\ Carried(u) /\ Shown(u)
    BY <1>3, <1>10 DEF CInv, Followers
  <2>2. HeadConn(u) = link[u] /\ HeadConn(u)' = e.conn
    BY <1>1, IdleType DEF HeadConn
  <2>3. Followed(u)'
    BY <1>1, <1>2, <1>3, <2>1 DEF Followed
  <2>4. ASSUME NEW c \in Ahead(u), c # 0, c # link[u] \/ c = e.conn PROVE c \in Ahead(u)'
    <3>1. CASE c = e.conn
      BY <2>2, <3>1 DEF Ahead
    <3>2. CASE c # link[u] /\ c # e.conn
      <4>1. PICK f \in Elems(inbox[u]) : f.enabled /\ f.conn = c
        BY <2>2, <3>2 DEF Ahead
      <4>2. f \in Elems(inbox'[u])
        BY <1>2, <3>2, <4>1
      <4> QED BY <4>1, <4>2 DEF Ahead
    <3> QED BY <2>4, <3>1, <3>2
  <2>5. Carried(u)'
    <3>1. ASSUME NEW c \in had'[u] \ moved' PROVE c \in Ahead(u)'
      <4>1. c \in Ahead(u)
        BY <1>1, <1>3, <2>1, <3>1 DEF Carried
      <4>2. c # 0
        BY <1>0, <1>3, <3>1 DEF TInv, Wires
      <4>3. c # link[u] \/ c = e.conn
        BY <1>1, <3>1, <4>2
      <4> QED BY <2>4, <4>1, <4>2, <4>3
    <3>2. ASSUME NEW m \in messages', m.owner = u, ~m.late PROVE m.conn \in Ahead(u)'
      <4>1. PICK n \in messages :
              /\ n.owner = u /\ ~n.late
              /\ m.conn = e.conn \/ (m = n /\ (link[u] # 0 => n.conn # link[u]))
        BY <1>6, <3>2
      <4>2. n.conn # 0
        <5>1. n \in Message(conns)
          BY <1>0, <4>1 DEF TInv, Wires
        <5> QED BY <1>0, <5>1 DEF Message
      <4>3. n.conn \in Ahead(u)
        BY <2>1, <4>1 DEF Carried
      <4>4. e.conn \in Ahead(u)'
        BY <2>2 DEF Ahead
      <4> QED BY <2>4, <4>1, <4>2, <4>3, <4>4
    <3> QED BY <3>1, <3>2 DEF Carried
  <2>6. ASSUME NEW c PROVE Under(u, c) \subseteq Under(u, c)'
    <3> SUFFICES ASSUME NEW i \in Under(u, c) PROVE i \in Under(u, c)'
      OBVIOUS
    <3>1. PICK m \in messages : m.id = i /\ m.chat = c /\ m.conn = link[u]
      BY <2>2, UnderIs
    <3>2. link[u] # 0
      <4>1. m \in Message(conns)
        BY <1>0 DEF TInv, Wires
      <4> QED BY <1>0, <3>1, <4>1 DEF Message
    <3>3. Moved1(m, link[u], e.conn) \in messages'
      BY <1>1, <3>1, <3>2 DEF Moved, Moved1
    <3>4. PICK n \in messages' : n.id = i /\ n.chat = c /\ n.conn = e.conn
      <4>1. /\ Moved1(m, link[u], e.conn).id = i /\ Moved1(m, link[u], e.conn).chat = c
            /\ Moved1(m, link[u], e.conn).conn = e.conn
        BY <1>0, <1>4, <1>5, <3>1, <3>2, MovedOne
      <4> QED BY <3>3, <4>1
    <3> QED BY <2>2, <3>4, UnderWillBe
  <2>7. Shown(u)'
    <3>1. page[u].kind = "chat" => \A c \in page[u].chats : page[u].count \subseteq Under(u, c)'
      BY <2>1, <2>6 DEF Shown
    <3> QED BY <1>1, <1>3, <3>1 DEF Shown
  <2> QED BY <1>3, <2>1, <2>3, <2>5, <2>7
<1>11. \A v \in Users \ {u} :
        /\ Same(v) /\ (v \in member => v \in member') /\ (v \in cutOff => v \in cutOff')
        /\ Mine(v) \cap {} \subseteq {0}
        /\ \A m \in messages' : m.owner = v => m \in messages
        /\ \A m \in messages : m.owner = v => m \in messages'
  BY <1>3, <1>6, <1>7
<1> QED BY <1>8, <1>9, <1>10, <1>11, Alone

\* Steps that leave the messages and the queues as they are.
LEMMA CalmStep ==
  ASSUME CInv, TInv', NEW u \in Users, UNCHANGED <<messages, current, past, inbox>>,
         \A v \in Users \ {u} :
           /\ link'[v] = link[v] /\ job'[v] = job[v] /\ page'[v] = page[v]
           /\ (v \in connected' <=> v \in connected)
           /\ (v \in member => v \in member') /\ (v \in cutOff => v \in cutOff'),
         {link'[u], job'[u].conn} \subseteq {0, link[u], job[u].conn},
         u \notin cutOff' =>
           /\ u \notin cutOff /\ u \in member' /\ HeadConn(u)' = HeadConn(u)
           /\ Followed(u) => Followed(u)'
           /\ TInv /\ Shown(u) => Shown(u)'
  PROVE  Separate' /\ Followers'
<1>1. \A v \in Users \ {u} : Same(v)
  BY DEF Same
<1>2. Mine(u)' \subseteq Mine(u) \cup {0}
  BY DEF Mine
<1>3. ASSUME u \notin cutOff' PROVE u \in member' /\ Followed(u)' /\ Carried(u)' /\ Shown(u)'
  <2>1. Followed(u)' /\ Carried(u) /\ Shown(u)' /\ u \in member' /\ HeadConn(u)' = HeadConn(u)
    BY <1>3 DEF CInv, Followers
  <2> QED BY <2>1 DEF Carried, Ahead
<1>4. \A v \in Users \ {u} :
        /\ Same(v) /\ (v \in member => v \in member') /\ (v \in cutOff => v \in cutOff')
        /\ Mine(v) \cap {0} \subseteq {0}
        /\ \A m \in messages' : m.owner = v => m \in messages
        /\ \A m \in messages : m.owner = v => m \in messages'
  BY <1>1
<1>5. Later /\ moved \subseteq moved'
  BY Unflagged DEF CInv
<1> QED BY <1>2, <1>3, <1>4, <1>5, Alone

LEMMA StoreStep ==
  ASSUME CInv, TInv', NEW u \in Users, StoreLink(u)
  PROVE  Separate' /\ Followers'
<1>0. TInv /\ link \in [Users -> 0 .. conns]
  BY DEF CInv, TInv, Wires
<1>1. /\ job[u].pc = "store" /\ link' = [link EXCEPT ![u] = job[u].conn]
      /\ connected' = connected \cup {u} /\ Done(u)
      /\ UNCHANGED <<member, messages, known, current, past, inbox, cutOff, page>>
  BY DEF StoreLink, menu
<1>2. /\ job'[u].pc = "idle" /\ job'[u].conn = 0 /\ \A v \in Users \ {u} : job'[v] = job[v]
  BY <1>0, <1>1, DoneType
<1>3. link'[u] = job[u].conn /\ \A v \in Users \ {u} : link'[v] = link[v]
  BY <1>0, <1>1
<1>4. job[u].conn # 0
  BY <1>0, <1>1 DEF TInv, Menu
<1>5. HeadConn(u)' = HeadConn(u)
  BY <1>1, <1>2, <1>3 DEF HeadConn
<1>6. Followed(u) => Followed(u)'
  BY <1>1, <1>2, <1>3, <1>4 DEF Followed
<1>7. Shown(u) => Shown(u)'
  <2>1. \A c : Under(u, c)' = Under(u, c)
    BY <1>1, <1>5 DEF Under, Ids
  <2> QED BY <1>1, <1>2, <2>1 DEF Shown
<1>8. u \notin cutOff' => u \notin cutOff /\ u \in member'
  BY <1>1 DEF CInv, Followers
<1> QED BY <1>1, <1>2, <1>3, <1>5, <1>6, <1>7, <1>8, CalmStep

\* A press counts all that the page it was made on shows, but what was flagged since.
LEMMA PressesStep ==
  ASSUME CInv, TInv', NEW u \in Users, Presses(u)
  PROVE  Separate' /\ Followers'
<1>0. TInv /\ job \in [Users -> Job(conns)] /\ page \in [Users -> Page]
  BY DEF CInv, TInv, Wires, Menu
<1>1. PICK kind \in {"list", "chat"}, chat \in Chats, pc \in {"preview", "invoice"} :
        Press(u, kind, chat, pc) /\ (pc = "invoice" => kind = "chat")
  <2>1. PICK c \in Chats : CountPreview(u, c) \/ CountChat(u, c)
    BY DEF Presses
  <2>2. CASE CountPreview(u, c)
    BY <2>2, Zenon DEF CountPreview
  <2>3. CASE CountChat(u, c)
    BY <2>3, Zenon DEF CountChat
  <2> QED BY <2>1, <2>2, <2>3
<1>2. PICK j \in Job(conns) :
        /\ job' = [job EXCEPT ![u] = j]
        /\ j.pc = pc /\ j.chat = chat /\ j.count = Ids(Found(u, chat)) /\ j.conn = 0
        /\ job[u] = Idle /\ page[u].kind = kind /\ chat \in page[u].chats
        /\ bill' = [bill EXCEPT ![u] = NoBill]
        /\ UNCHANGED <<rows, current, past, inbox, cutOff, page, conns, faults>>
  BY <1>0, <1>1, PressEffect
<1>3. job'[u] = j /\ job[u].pc = "idle" /\ \A v \in Users \ {u} : job'[v] = job[v]
  BY <1>0, <1>2, IdleType
<1>4. UNCHANGED <<member, link, connected, messages, current, past, inbox, cutOff, page>>
  BY <1>2 DEF rows
<1>5. HeadConn(u) = link[u] /\ HeadConn(u)' = link[u]
  BY <1>1, <1>2, <1>3, <1>4 DEF HeadConn
<1>6. \A c : Under(u, c)' = Under(u, c)
  BY <1>4, <1>5 DEF Under, Ids
<1>7. Followed(u) => Followed(u)'
  BY <1>1, <1>2, <1>3, <1>4 DEF Followed
<1>8. Shown(u) => Shown(u)'
  <2>1. j.count \subseteq Under(u, chat)
    BY <1>2, <1>5 DEF Under, Ids, Found
  <2>2. ASSUME Shown(u), pc = "invoice", NEW m \in messages, m.id \in page[u].count
        PROVE  m.id \in j.count \/ m.deleted
    <3>1. m.id \in Under(u, chat)
      BY <1>1, <1>2, <2>2 DEF Shown
    <3>2. PICK n \in messages : n.id = m.id /\ n.chat = chat /\ n.conn = link[u]
      BY <1>5, <3>1, UnderIs
    <3>3. n = m
      BY <1>0, <3>2 DEF TInv, Numbered
    <3> QED BY <1>2, <3>2, <3>3 DEF Found, Ids
  <2>3. ASSUME Shown(u) PROVE Shown(u)'
    <3>1. page[u].kind = "chat" => \A c \in page[u].chats : page[u].count \subseteq Under(u, c)
      BY <2>3 DEF Shown
    <3>2. pc = "invoice" => page[u].kind = "chat" /\ chat \in page[u].chats
      BY <1>1, <1>2
    <3> QED BY <1>2, <1>3, <1>4, <1>6, <2>1, <2>2, <2>3, <3>1, <3>2 DEF Shown
  <2> QED BY <2>3
<1>9. u \notin cutOff' => u \notin cutOff /\ u \in member'
  BY <1>4 DEF CInv, Followers
<1> QED BY <1>2, <1>3, <1>4, <1>5, <1>7, <1>8, <1>9, CalmStep

LEMMA DoneMenuStep ==
  ASSUME CInv, TInv', NEW u \in Users, ShowPreview(u) \/ Invoice(u) \/ Fail(u)
  PROVE  Separate' /\ Followers'
<1>0. TInv /\ page \in [Users -> Page] /\ job \in [Users -> Job(conns)]
  BY DEF CInv, TInv, Wires, Menu
<1>1. /\ Done(u) /\ UNCHANGED <<member, link, connected, messages, current, past, inbox>>
      /\ cutOff' = IF job[u].pc = "store" THEN cutOff \cup {u} ELSE cutOff
      /\ \/ page' = page
         \/ /\ job[u].pc = "preview"
            /\ page' = [page EXCEPT ![u] =
                 [kind |-> "chat", chats |-> {job[u].chat}, count |-> job[u].count]]
  BY DEF ShowPreview, Invoice, Fail, rows, menu
<1>2. job'[u].pc = "idle" /\ job'[u].conn = 0 /\ \A v \in Users \ {u} : job'[v] = job[v]
  BY <1>0, <1>1, DoneType
<1>3. \A v \in Users \ {u} : page'[v] = page[v]
  BY <1>0, <1>1
<1>4. ASSUME u \notin cutOff'
      PROVE  /\ u \notin cutOff /\ u \in member' /\ HeadConn(u)' = HeadConn(u)
             /\ Followed(u) => Followed(u)'
             /\ Shown(u) => Shown(u)'
  <2>1. job[u].pc # "store" /\ u \notin cutOff
    BY <1>1, <1>4
  <2>2. u \in member'
    BY <1>1, <2>1 DEF CInv, Followers
  <2>3. HeadConn(u)' = HeadConn(u)
    BY <1>1, <1>2, <2>1 DEF HeadConn
  <2>4. \A c : Under(u, c)' = Under(u, c)
    BY <1>1, <2>3 DEF Under, Ids
  <2>5. Followed(u) => Followed(u)'
    BY <1>1, <1>2, <2>1 DEF Followed
  <2>6. CASE page' = page
    <3>1. Shown(u) => Shown(u)'
      BY <1>2, <2>4, <2>6 DEF Shown
    <3> QED BY <2>1, <2>2, <2>3, <2>5, <3>1
  <2>7. CASE job[u].pc = "preview" /\ page'[u].chats = {job[u].chat} /\ page'[u].count = job[u].count
    <3>1. Shown(u) => Shown(u)'
      BY <1>2, <2>4, <2>7 DEF Shown
    <3> QED BY <2>1, <2>2, <2>3, <2>5, <3>1
  <2> QED BY <1>0, <1>1, <2>6, <2>7
<1> QED BY <1>1, <1>2, <1>3, <1>4, CalmStep

LEMMA RowsStep ==
  ASSUME CInv, TInv', NEW u \in Users, ListChats(u) \/ DeleteData(u) \/ Return(u)
  PROVE  Separate' /\ Followers'
<1>0. TInv /\ page \in [Users -> Page] /\ link \in [Users -> 0 .. conns]
  BY DEF CInv, TInv, Wires, Menu
<1>1. job[u] = Idle /\ job[u].pc = "idle" /\ UNCHANGED <<messages, current, past, inbox, job>>
  BY IdleType DEF ListChats, DeleteData, Return, rows
<1>2. CASE ListChats(u)
  <2>1. UNCHANGED <<member, link, connected, cutOff>>
    BY <1>2 DEF ListChats, rows
  <2>2. page'[u].kind = "list" /\ \A v \in Users \ {u} : page'[v] = page[v]
    BY <1>0, <1>2 DEF ListChats
  <2>3. HeadConn(u)' = HeadConn(u)
    BY <1>1, <2>1 DEF HeadConn
  <2>4. (Followed(u) => Followed(u)') /\ Shown(u)'
    BY <1>1, <2>1, <2>2 DEF Followed, Shown
  <2>5. u \notin cutOff' => u \notin cutOff /\ u \in member'
    BY <2>1 DEF CInv, Followers
  <2> QED BY <1>1, <2>1, <2>2, <2>3, <2>4, <2>5, CalmStep
<1>3. CASE DeleteData(u)
  <2>1. /\ u \in cutOff' /\ link' = [link EXCEPT ![u] = 0] /\ page' = page
        /\ member' = member \ {u} /\ connected' = connected \ {u} /\ cutOff' = cutOff \cup {u}
    BY <1>3 DEF DeleteData, menu
  <2>2. link'[u] = 0 /\ \A v \in Users \ {u} : link'[v] = link[v]
    BY <1>0, <2>1
  <2> QED BY <1>1, <2>1, <2>2, CalmStep
<1>4. CASE Return(u)
  <2>1. UNCHANGED <<link, connected, cutOff, page>> /\ member' = member \cup {u} /\ u \notin member
    BY <1>4 DEF Return, menu
  <2>2. u \in cutOff'
    BY <2>1 DEF CInv, Followers
  <2> QED BY <1>1, <2>1, <2>2, CalmStep
<1> QED BY <1>2, <1>3, <1>4

LEMMA OthersStep ==
  ASSUME CInv, UNCHANGED <<member, link, connected, messages, current, past, inbox, cutOff, job, page>>
  PROVE  Separate' /\ Followers'
<1>1. \A v \in Users : Mine(v)' = Mine(v)
  BY DEF Mine
<1>2. ASSUME NEW v \in Users
      PROVE  /\ Followed(v) => Followed(v)'
             /\ Carried(v) => Carried(v)'
             /\ Shown(v) => Shown(v)'
  <2>1. HeadConn(v)' = HeadConn(v) /\ Ahead(v)' = Ahead(v) /\ (Followed(v) => Followed(v)')
    BY SameUser DEF Same
  <2>2. \A c : Under(v, c)' = Under(v, c)
    BY <2>1 DEF Under, Ids
  <2>3. Carried(v) => Carried(v)'
    BY <2>1 DEF Carried
  <2> QED BY <2>1, <2>2, <2>3 DEF Shown
<1> QED BY <1>1, <1>2 DEF CInv, Separate, Followers

LEMMA InitCInv == Init => CInv
<1> SUFFICES ASSUME Init PROVE CInv
  OBVIOUS
<1>1. \A u \in Users : /\ job[u].pc = "idle" /\ job[u].conn = 0 /\ link[u] = 0 /\ current[u] = 0
                       /\ inbox[u] = <<>> /\ page[u].kind = "none" /\ had[u] = {}
  BY IdleType DEF Init, NoPage
<1>2. Elems(<<>>) = {} /\ messages = {} /\ connected = {} /\ member = Users
  BY DEF Init, Elems
<1>3. Separate
  BY <1>1, <1>2 DEF Separate, Mine
<1>4. Followers
  BY <1>1, <1>2 DEF Followers, Followed, Carried, Shown
<1> QED BY <1>3, <1>4, InitType DEF CInv

LEMMA NextCInv == ASSUME CInv, Next PROVE CInv'
<1>1. TInv'
  BY NextType DEF CInv
<1>2. ASSUME NEW chat \in Chats, OtherLeaves(chat) \/ OtherJoins(chat)
      PROVE  Separate' /\ Followers'
  <2>1. UNCHANGED <<member, link, connected, messages, current, past, inbox, cutOff, job, page>>
    BY <1>2 DEF OtherLeaves, OtherJoins, menu
  <2> QED BY <2>1, OthersStep
<1>3. Separate' /\ Followers'
  BY <1>1, <1>2, Steps, TelegramStep, PopsStep, RekeyStep, StoreStep, RowsStep, DoneMenuStep,
    PressesStep, SaveStep, FlagStep
<1> QED BY <1>1, <1>3 DEF CInv

LEMMA StutterCInv == ASSUME CInv, UNCHANGED vars PROVE CInv'
<1>1. UNCHANGED <<member, link, connected, messages, current, past, inbox, cutOff, job, page>>
  BY DEF vars, rows, menu
<1>2. TInv'
  BY StutterType DEF CInv
<1> QED BY <1>1, <1>2, OthersStep DEF CInv

LEMMA ArchiveInvariant == Spec => []CInv
<1>1. CInv /\ [Next]_vars => CInv'
  BY NextCInv, StutterCInv
<1> QED BY <1>1, InitCInv, PTL DEF Spec

-----------------------------------------------------------------------------
(* The properties.                                                         *)

\* Under the hash of a user's row there are only messages of his own, whoever deletes his
\* data, returns or connects in between, and however late a message is saved.
THEOREM OnlyOwn == Spec => []CountsOwnMessages
<1>1. ASSUME CInv PROVE CountsOwnMessages
  <2> SUFFICES ASSUME NEW u \in Users, NEW chat \in Chats, NEW m \in Found(u, chat)
               PROVE  m.owner = u
    BY DEF CountsOwnMessages
  <2>1. m \in messages /\ m.conn \in Mine(u)
    BY DEF Found, Mine
  <2> QED BY <1>1, <2>1, Owned DEF CInv
<1> QED BY <1>1, ArchiveInvariant, PTL

\* A user whose updates have been handled is counted every message of his that is not flagged
\* and that was saved before the messages of its connection were moved, however often he has
\* disconnected and connected.
THEOREM AllFound == Spec => []FoundAgain
<1>1. ASSUME CInv PROVE FoundAgain
  <2> SUFFICES ASSUME NEW u \in Users, NEW chat \in Chats, Quiet(u), NEW m \in messages,
                      m.owner = u, m.chat = chat, ~m.late, ~m.deleted
               PROVE  m \in Found(u, chat)
    BY DEF FoundAgain
  <2>1. Carried(u) /\ inbox[u] = <<>> /\ job[u].pc = "idle"
    BY <1>1, IdleType DEF Quiet, CInv, Followers
  <2>2. Ahead(u) = {link[u]}
    <3>1. Elems(<<>>) = {}
      BY DEF Elems
    <3> QED BY <2>1, <3>1 DEF Ahead, HeadConn
  <2> QED BY <2>1, <2>2 DEF Carried, Found
<1> QED BY <1>1, ArchiveInvariant, PTL

\* When nothing of a user's waits, what his row says of the connection is what Telegram knows.
THEOREM StatusKnown == Spec => []StatusIsTrue
<1>1. ASSUME CInv PROVE StatusIsTrue
  <2> SUFFICES ASSUME NEW u \in Users, Quiet(u) PROVE u \in connected <=> current[u] # 0
    BY DEF StatusIsTrue
  <2> QED BY <1>1, IdleType DEF Quiet, CInv, Followers, Followed
<1> QED BY <1>1, ArchiveInvariant, PTL

\* Each message that a page counts is on the invoice that was asked for on it, however old the
\* page is, or has been flagged since.
THEOREM Honoured == Spec => PreviewIsHonoured
<1> DEFINE A == \A u \in Users \ cutOff :
                  job[u].pc = "invoice" /\ job'[u] = Idle /\ faults' = faults =>
                    \A m \in messages : m.id \in page[u].count => m.id \in bill'[u] \/ m.deleted
<1>1. ASSUME CInv, Next PROVE A
  <2> SUFFICES ASSUME NEW u \in Users \ cutOff, job[u].pc = "invoice", job'[u] = Idle,
                      faults' = faults, NEW m \in messages, m.id \in page[u].count
               PROVE  m.id \in bill'[u] \/ m.deleted
    OBVIOUS
  <2>0. /\ TInv /\ job \in [Users -> Job(conns)] /\ page \in [Users -> Page]
        /\ bill \in [Users -> Bill]
    BY <1>1 DEF CInv, TInv, Wires, Menu
  <2>1. m.id \in job[u].count \/ m.deleted
    BY <1>1 DEF CInv, Followers, Shown
  <2>3. job'[u] # job[u] /\ Idle.pc = "idle"
    BY IdleType
  <2>4. ASSUME NEW v \in Users, Rekey(v) PROVE job'[u] = job[u]
    <3>1. u # v
      <4>1. Rekey(v) => job[v].pc = "idle"
        BY IdleType DEF Rekey
      <4> QED BY <2>4, <4>1
    <3>2. \A w \in Users \ {v} : job'[w] = job[w]
      BY <2>0, <2>4, RekeyEffect
    <3> QED BY <3>1, <3>2
  <2>5. ASSUME NEW v \in Users, Presses(v) PROVE job'[u] = job[u]
    <3>1. job[v].pc = "idle" /\ \E j : job' = [job EXCEPT ![v] = j]
      BY <2>5, IdleType DEF Presses, CountPreview, CountChat, Press
    <3> QED BY <2>0, <3>1
  <2>6. ASSUME NEW v \in Users, Done(v), u # v PROVE job'[u] = job[u]
    BY <2>0, <2>6 DEF Done
  <2>7. ~StoreLink(u) /\ ~ShowPreview(u) /\ ~Fail(u)
    <3>1. faults \in 0 .. MaxFaults /\ MaxFaults \in Nat
      BY <2>0, BoundsAssumption DEF TInv, Members
    <3> QED BY <3>1 DEF StoreLink, ShowPreview, Fail
  <2>8. Invoice(u)
    <3>1. \/ job' = job \/ \E v \in Users : Rekey(v) \/ Presses(v)
          \/ \E v \in Users : Done(v) /\ (StoreLink(v) \/ ShowPreview(v) \/ Invoice(v) \/ Fail(v))
      BY <1>1, Steps DEF Telegram, Connect, ChangeRights, Disconnect, Pops, HandleUnknown,
        HandleDisconnect, FailFirst, ListChats, DeleteData, Return, Save, Flag, OtherLeaves,
        OtherJoins, StoreLink, ShowPreview, Invoice, Fail
    <3> QED BY <2>3, <2>4, <2>5, <2>6, <2>7, <3>1
  <2>9. job[u].count # {} => bill'[u] = job[u].count
    BY <2>0, <2>8 DEF Invoice
  <2> QED BY <2>1, <2>9
<1>2. ASSUME CInv, [Next]_vars PROVE [A]_vars
  BY <1>1, <1>2
<1>3. Spec => [][A]_vars
  <2>1. CInv /\ [Next]_vars => [A]_vars
    BY <1>2
  <2> HIDE DEF A
  <2> QED BY <2>1, ArchiveInvariant, PTL DEF Spec
<1> QED BY <1>3 DEF PreviewIsHonoured
===============================================================================
