----------------------------- MODULE ChatArchive -----------------------------
(***************************************************************************)
(* The messages the bot has saved for its users, and how they are found    *)
(* again.  A message row carries the hash of the business connection it    *)
(* came over; a user's row carries the hash of his last connection.  When  *)
(* he connects the bot anew, businessConnection/adapters.go moves his      *)
(* messages to the new hash and then stores that hash; exportChat lists his*)
(* chats, previews one and sells it, counting the messages under the hash  *)
(* of the row; deleteData deletes the row, and a later /start makes a new  *)
(* one.                                                                    *)
(*                                                                         *)
(* Telegram and the service that saves messages are external.  Connection  *)
(* updates of a user are handled in their order, one at a time.  A message *)
(* is saved whenever that service gets to it, under the connection it came *)
(* over, which may have been replaced by then; and it is flagged when its  *)
(* sender deletes it in the chat.                                          *)
(***************************************************************************)
EXTENDS Integers, FiniteSets, Sequences

CONSTANTS
  Users,       \* users who have started the bot
  Chats,       \* the people they talk to
  Exporters,   \* bound: users who open the export menu
  MaxConns,    \* bound: business connections made, numbered from 1
  MaxMessages, \* bound: messages saved
  MaxEvents,   \* bound: updates waiting for one user
  MaxFaults    \* bound: failed statements and emissions, killed pods

ASSUME ExportersAssumption == Exporters \subseteq Users
ASSUME BoundsAssumption ==
  {MaxConns, MaxMessages, MaxEvents, MaxFaults} \subseteq Nat

VARIABLES
  member,   \* users with a row in telegramusers
  link,     \* business_connection_id_hash of each row, 0 for the empty one
  messages, \* rows of messages
  current,  \* Telegram: the connection of each user, 0 for none
  had,      \* Telegram: the connections each user has had
  moved,    \* connections whose messages were moved to a later one
  inbox,    \* connection updates of each user that wait to be handled
  connected, \* users whose row has is_connected
  known,    \* the people in Chats with a row in telegramusers
  cutOff,   \* users who deleted their data once, or of whom a connection update was
            \* not handled to its end
  job,      \* what is being done for each user
  page,     \* the export menu in each user's chat
  bill,     \* messages of the invoice that each user's last press brought
  conns,    \* connections made so far
  faults    \* faults so far

rows == <<member, link, connected, messages, known>>
menu == <<page, bill>>
past == <<had, moved>>
vars == <<rows, current, past, inbox, cutOff, job, menu, conns, faults>>

\* A count is the set of the ids of the messages that were counted.
NoPage == [kind |-> "none", chats |-> {}, count |-> {}]
NoBill == {0}
Idle == [pc |-> "idle", conn |-> 0, chat |-> 0, count |-> {}]

Init ==
  /\ member = Users
  /\ link = [u \in Users |-> 0]
  /\ connected = {}
  /\ messages = {}
  /\ current = [u \in Users |-> 0]
  /\ had = [u \in Users |-> {}]
  /\ moved = {}
  /\ inbox = [u \in Users |-> <<>>]
  /\ cutOff = {}
  /\ job = [u \in Users |-> Idle]
  /\ known = Chats
  /\ page = [u \in Users |-> NoPage]
  /\ bill = [u \in Users |-> NoBill]
  /\ conns = 0
  /\ faults = 0

Done(u) == job' = [job EXCEPT ![u] = Idle]

-----------------------------------------------------------------------------
(* Telegram, and the service that saves messages.                          *)

Push(u, event) ==
  /\ Len(inbox[u]) < MaxEvents
  /\ inbox' = [inbox EXCEPT ![u] = Append(@, event)]

\* The user connects the bot: a new connection.
Connect(u) ==
  /\ current[u] = 0
  /\ conns < MaxConns
  /\ conns' = conns + 1
  /\ current' = [current EXCEPT ![u] = conns']
  /\ had' = [had EXCEPT ![u] = @ \cup {conns'}]
  /\ Push(u, [enabled |-> TRUE, conn |-> conns'])
  /\ UNCHANGED <<rows, moved, cutOff, job, menu, faults>>

\* He changes the bot's rights: the same connection is announced again.
ChangeRights(u) ==
  /\ current[u] # 0
  /\ Push(u, [enabled |-> TRUE, conn |-> current[u]])
  /\ UNCHANGED <<rows, current, past, cutOff, job, menu, conns, faults>>

Disconnect(u) ==
  /\ current[u] # 0
  /\ current' = [current EXCEPT ![u] = 0]
  /\ Push(u, [enabled |-> FALSE, conn |-> current[u]])
  /\ UNCHANGED <<rows, past, cutOff, job, menu, conns, faults>>

\* A message of one of the user's connections is saved, in time or late: after the
\* messages of that connection have been moved.
Save(u, chat) ==
  /\ Cardinality(messages) < MaxMessages
  /\ \E c \in had[u] :
       messages' = messages \cup
         {[id |-> Cardinality(messages) + 1, owner |-> u, chat |-> chat, conn |-> c,
           late |-> c \in moved, deleted |-> FALSE]}
  /\ UNCHANGED <<member, link, connected, known, current, past, inbox, cutOff, job, menu,
                 conns, faults>>

\* The sender deletes a message: its row is flagged and stays.
Flag(m) ==
  /\ messages' = (messages \ {m}) \cup {[m EXCEPT !.deleted = TRUE]}
  /\ UNCHANGED <<member, link, connected, known, current, past, inbox, cutOff, job, menu,
                 conns, faults>>

-----------------------------------------------------------------------------
(* A business_connection update (adapters.go, run).                        *)

NextUpdate(u) == Head(inbox[u])

\* Variant of Moved: the condition of the UPDATE is dropped.
MovedAll(from, to) == {[m EXCEPT !.conn = to] : m \in messages}

Moved(from, to) ==
  {IF m.conn = from THEN [m EXCEPT !.conn = to] ELSE m : m \in messages}

\* The sender has no row.
HandleUnknown(u) ==
  /\ job[u] = Idle
  /\ inbox[u] # <<>>
  /\ u \notin member
  /\ inbox' = [inbox EXCEPT ![u] = Tail(@)]
  /\ UNCHANGED <<rows, current, past, cutOff, job, menu, conns, faults>>

\* Variant of Rekey: the hash is read after it was stored.
RekeyNothing(u) ==
  /\ job[u] = Idle
  /\ inbox[u] # <<>>
  /\ u \in member
  /\ NextUpdate(u).enabled
  /\ inbox' = [inbox EXCEPT ![u] = Tail(@)]
  /\ job' = [job EXCEPT ![u].pc = "store", ![u].conn = NextUpdate(u).conn]
  /\ UNCHANGED <<rows, current, past, cutOff, menu, conns, faults>>

\* One UPDATE outside any transaction; a row without a hash has no messages.
Rekey(u) ==
  /\ job[u] = Idle
  /\ inbox[u] # <<>>
  /\ u \in member
  /\ NextUpdate(u).enabled
  /\ inbox' = [inbox EXCEPT ![u] = Tail(@)]
  /\ messages' = IF link[u] = 0 THEN messages ELSE Moved(link[u], NextUpdate(u).conn)
  /\ moved' = moved \cup ({link[u]} \ {0, NextUpdate(u).conn})
  /\ job' = [job EXCEPT ![u].pc = "store", ![u].conn = NextUpdate(u).conn]
  /\ UNCHANGED <<member, link, connected, known, current, had, cutOff, menu, conns, faults>>

\* SetBusinessConnectionConnected.
StoreLink(u) ==
  /\ job[u].pc = "store"
  /\ link' = [link EXCEPT ![u] = job[u].conn]
  /\ connected' = connected \cup {u}
  /\ Done(u)
  /\ UNCHANGED <<member, messages, known, current, past, inbox, cutOff, menu, conns, faults>>

\* Variant of HandleDisconnect: the user is told, the row is left as it is.
HandleDisconnectIgnored(u) ==
  /\ job[u] = Idle
  /\ inbox[u] # <<>>
  /\ u \in member
  /\ ~NextUpdate(u).enabled
  /\ inbox' = [inbox EXCEPT ![u] = Tail(@)]
  /\ UNCHANGED <<rows, current, past, cutOff, job, menu, conns, faults>>

\* SetBusinessConnectionDisconnected, which leaves the hash for the next connect.
HandleDisconnect(u) ==
  /\ job[u] = Idle
  /\ inbox[u] # <<>>
  /\ u \in member
  /\ ~NextUpdate(u).enabled
  /\ inbox' = [inbox EXCEPT ![u] = Tail(@)]
  /\ connected' = connected \ {u}
  /\ UNCHANGED <<member, link, messages, known, current, past, cutOff, job, menu, conns, faults>>

-----------------------------------------------------------------------------
(* Export of a chat (exportChat).  The menu is one message that is edited; *)
(* its buttons stay while the world changes.                               *)

\* chatMessageCount
Found(u, chat) ==
  {m \in messages : m.chat = chat /\ m.conn = link[u] /\ ~m.deleted}

Ids(ms) == {m.id : m \in ms}

\* A row of user_relations is there since the first message.
Related(u, chat) == \E m \in messages : m.owner = u /\ m.chat = chat

\* runShowContacts, by command or the button "back": the people in user_relations
\* who are users themselves.
ListChats(u) ==
  /\ job[u] = Idle
  /\ u \in member \cap Exporters
  /\ page' = [page EXCEPT ![u] =
       [kind |-> "list", chats |-> {c \in known : Related(u, c)}, count |-> {}]]
  /\ bill' = [bill EXCEPT ![u] = NoBill]
  /\ UNCHANGED <<rows, current, past, inbox, cutOff, job, conns, faults>>

\* A press on the menu, by a member, about somebody who has a row and to whom he is
\* related: the messages are counted.  Whether the code on an old button still finds
\* who left and came back is the library's choice; here it does.
Press(u, kind, chat, pc) ==
  /\ job[u] = Idle
  /\ u \in member
  /\ page[u].kind = kind
  /\ chat \in page[u].chats \cap known
  /\ Related(u, chat)
  /\ job' = [job EXCEPT ![u] =
       [Idle EXCEPT !.pc = pc, !.chat = chat, !.count = Ids(Found(u, chat))]]
  /\ bill' = [bill EXCEPT ![u] = NoBill]
  /\ UNCHANGED <<rows, current, past, inbox, cutOff, page, conns, faults>>

\* runViewChat
CountPreview(u, chat) == Press(u, "list", chat, "preview")

\* buildMessage: the count, and the button "restore" if there is something.
ShowPreview(u) ==
  /\ job[u].pc = "preview"
  /\ page' = [page EXCEPT ![u] =
       [kind |-> "chat", chats |-> {job[u].chat}, count |-> job[u].count]]
  /\ Done(u)
  /\ UNCHANGED <<rows, current, past, inbox, cutOff, bill, conns, faults>>

\* runRestoreChat counts again.
CountChat(u, chat) == page[u].count # {} /\ Press(u, "chat", chat, "invoice")

\* Variant of Invoice: the test of line 66 is dropped.
InvoiceAlways(u) ==
  /\ job[u].pc = "invoice"
  /\ bill' = [bill EXCEPT ![u] = job[u].count]
  /\ Done(u)
  /\ UNCHANGED <<rows, current, past, inbox, cutOff, page, conns, faults>>

\* Nothing to restore, or an invoice for as many messages as were counted.
Invoice(u) ==
  /\ job[u].pc = "invoice"
  /\ bill' = IF job[u].count = {} THEN bill ELSE [bill EXCEPT ![u] = job[u].count]
  /\ Done(u)
  /\ UNCHANGED <<rows, current, past, inbox, cutOff, page, conns, faults>>

-----------------------------------------------------------------------------
(* Members come and go.                                                    *)

\* runDeleteConfirm: the row goes, the messages stay.
DeleteData(u) ==
  /\ job[u] = Idle
  /\ u \in member
  /\ member' = member \ {u}
  /\ link' = [link EXCEPT ![u] = 0]
  /\ connected' = connected \ {u}
  /\ cutOff' = cutOff \cup {u}
  /\ UNCHANGED <<messages, known, current, past, inbox, job, menu, conns, faults>>

\* /start makes a row without a hash, whatever connection there is.
Return(u) ==
  /\ job[u] = Idle
  /\ u \notin member
  /\ member' = member \cup {u}
  /\ UNCHANGED <<link, connected, messages, known, current, past, inbox, cutOff, job, menu, conns,
                 faults>>

\* An interlocutor deletes his data or signs up.
OtherLeaves(chat) ==
  /\ known' = known \ {chat}
  /\ UNCHANGED <<member, link, connected, messages, current, past, inbox, cutOff, job, menu,
                 conns, faults>>

OtherJoins(chat) ==
  /\ known' = known \cup {chat}
  /\ UNCHANGED <<member, link, connected, messages, current, past, inbox, cutOff, job, menu,
                 conns, faults>>

\* A step fails, or the pod is killed: the rest of the handler is lost.
Fail(u) ==
  /\ job[u] # Idle
  /\ faults < MaxFaults
  /\ faults' = faults + 1
  /\ cutOff' = IF job[u].pc = "store" THEN cutOff \cup {u} ELSE cutOff
  /\ Done(u)
  /\ UNCHANGED <<rows, current, past, inbox, menu, conns>>

\* The same before the handler has written anything.
FailFirst(u) ==
  /\ job[u] = Idle
  /\ inbox[u] # <<>>
  /\ faults < MaxFaults
  /\ faults' = faults + 1
  /\ cutOff' = cutOff \cup {u}
  /\ inbox' = [inbox EXCEPT ![u] = Tail(@)]
  /\ UNCHANGED <<rows, current, past, job, menu, conns>>

-----------------------------------------------------------------------------
Telegram(u) == Connect(u) \/ ChangeRights(u) \/ Disconnect(u)

ConnectionUpdate(u) ==
  HandleUnknown(u) \/ Rekey(u) \/ StoreLink(u) \/ HandleDisconnect(u)

Export(u) ==
  \/ ListChats(u) \/ ShowPreview(u) \/ Invoice(u)
  \/ \E chat \in Chats : CountPreview(u, chat) \/ CountChat(u, chat)

Next ==
  \/ \E u \in Users :
       \/ Telegram(u) \/ ConnectionUpdate(u) \/ Export(u) \/ DeleteData(u) \/ Return(u)
       \/ Fail(u) \/ FailFirst(u)
       \/ \E chat \in Chats : Save(u, chat)
  \/ \E m \in messages : Flag(m)
  \/ \E chat \in Chats : OtherLeaves(chat) \/ OtherJoins(chat)

Spec == Init /\ [][Next]_vars

-----------------------------------------------------------------------------
(* Properties.                                                             *)

\* Every variable has its type, and no invoice is for an empty chat.
TypeOK ==
  /\ member \subseteq Users /\ connected \subseteq member
  /\ known \subseteq Chats /\ cutOff \subseteq Users
  /\ conns \in 0 .. MaxConns
  /\ link \in [Users -> 0 .. conns] /\ current \in [Users -> 0 .. conns]
  /\ had \in [Users -> SUBSET (1 .. conns)] /\ moved \subseteq 1 .. conns
  /\ messages \subseteq [id : 1 .. MaxMessages, owner : Users, chat : Chats,
                         conn : 1 .. conns, late : BOOLEAN, deleted : BOOLEAN]
  /\ \A u \in Users :
       /\ inbox[u] \in Seq([enabled : BOOLEAN, conn : 1 .. conns])
       /\ Len(inbox[u]) <= MaxEvents
       /\ job[u] \in [pc : {"idle", "store", "preview", "invoice"}, conn : 0 .. conns,
                      chat : Chats \cup {0}, count : SUBSET (1 .. MaxMessages)]
       /\ page[u] \in [kind : {"none", "list", "chat"}, chats : SUBSET Chats,
                       count : SUBSET (1 .. MaxMessages)]
       /\ bill[u] \in {NoBill} \cup ((SUBSET (1 .. MaxMessages)) \ {{}})
  /\ faults \in 0 .. MaxFaults

\* Nothing of u's is under way, and his connection updates were handled.
Quiet(u) == u \in member \ cutOff /\ inbox[u] = <<>> /\ job[u] = Idle

\* However often a user disconnects and connects again, and whatever is saved while his
\* messages are being moved (adapters.go:54-69), an export then counts every message of
\* the chat that is not flagged as deleted (exportChat/utils.go:12-22) and that was saved
\* before the messages of its connection were moved.  (One that is saved later stays
\* under the old hash and is never counted.)
FoundAgain ==
  \A u \in Users, chat \in Chats : Quiet(u) =>
    {m \in messages : m.owner = u /\ m.chat = chat /\ ~m.late /\ ~m.deleted}
      \subseteq Found(u, chat)

\* What /check tells a user (checkConnection.go:92) is what Telegram knows, when
\* his connections and disconnections were handled late but in their order.
StatusIsTrue == \A u \in Users : Quiet(u) => (u \in connected <=> current[u] # 0)

\* What a preview offers can be had: when a user presses "restore", however old the page
\* is and however often he has disconnected and connected since, each message that was
\* counted for the page is on the invoice, unless it was flagged as deleted in between
\* (sendPayment.go:62-68).
PreviewIsHonoured ==
  [][\A u \in Users \ cutOff :
       job[u].pc = "invoice" /\ job'[u] = Idle /\ faults' = faults =>
         \A m \in messages : m.id \in page[u].count => m.id \in bill'[u] \/ m.deleted]_vars

\* A hash is never anybody else's: whoever deletes his data, returns or connects, an
\* export never counts a message that another user has had (adapters.go:58-65).
CountsOwnMessages ==
  \A u \in Users, chat \in Chats : \A m \in Found(u, chat) : m.owner = u
=============================================================================
