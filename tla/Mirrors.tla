------------------------------- MODULE Mirrors -------------------------------
(***************************************************************************)
(* Mirror bots (endpoints/mirror): /create_mirror opens a ten-minute wait  *)
(* for a bot token in Redis; a text message closes it and becomes a mirror,*)
(* free or to be paid for; a button opens a mirror and notes it in Redis;  *)
(* "delete" is asked, confirmed, and removes the mirror that was noted.    *)
(*                                                                         *)
(* The statements and commands between which something can change are steps*)
(* of their own.  Three handlers do two calls in one step: ViewMirror      *)
(* (find and note), ReadView (read and renew the ten minutes: a key may    *)
(* expire at any time here, or never) and RemoveMirror (find and delete).  *)
(* The list only reads, and has no action.  The payment service is         *)
(* external: it turns a pending mirror into a paid one, and the time that  *)
(* was paid for runs out.                                                  *)
(***************************************************************************)
EXTENDS Integers, FiniteSets

CONSTANTS
  Users,      \* Telegram users, each in his private chat with the bot
  Workers,    \* routing goroutines
  Routes,     \* <<user, worker>> pairs: which worker may get whose updates
  FreeLimit,  \* mirrorFreeLimit()
  MaxUpdates, \* bound: updates received
  MaxFaults   \* bound: failed statements, commands and emissions, killed pods

ASSUME RoutesAssumption == Routes \subseteq Users \X Workers
ASSUME LimitAssumption == FreeLimit \in Nat
ASSUME BoundsAssumption == MaxUpdates \in Nat /\ MaxFaults \in Nat

VARIABLES
  account,  \* the id of each user's telegramusers row, 0 when there is none
  mirrors,  \* the rows of mirrors
  invoiced, \* mirrors an invoice was sent for
  waiting,  \* Redis mirror:create:<chat>, the chats that wait for a token
  view,     \* Redis mirror:view:<chat>, the mirror noted last, 0 for none
  job,      \* what each worker is doing
  serial,   \* the next value of the id sequences
  asked,    \* /create_mirror handled so far, per user
  made,     \* mirrors made so far, per user
  received, \* updates received so far
  faults    \* faults so far

database == <<account, mirrors, invoiced>>
redis == <<waiting, view>>
counts == <<asked, made>>
vars == <<database, redis, job, serial, counts, received, faults>>

Ops == {"start", "create", "token", "cancel", "malformed", "info", "confirm",
        "delete"}

\* The ids drawn so far; 0 stands for any other.
Ids == 0 .. serial - 1

Idle == [pc |-> "idle", op |-> "none", user |-> 0, uid |-> 0, id |-> 0,
         status |-> "none"]

At(w, pc, ops) == job[w].pc = pc /\ job[w].op \in ops

Goto(w, pc) == job' = [job EXCEPT ![w].pc = pc]
Done(w) == job' = [job EXCEPT ![w] = Idle]

Init ==
  /\ account = [u \in Users |-> 0]
  /\ mirrors = {}
  /\ invoiced = {}
  /\ waiting = {}
  /\ view = [u \in Users |-> 0]
  /\ job = [w \in Workers |-> Idle]
  /\ serial = 1
  /\ asked = [u \in Users |-> 0]
  /\ made = [u \in Users |-> 0]
  /\ received = 0
  /\ faults = 0

\* An update reaches a worker.  The mirror of an "info" press is what its callback data
\* say: any id, of any owner, of a mirror that is there or not.
Receive(w) ==
  /\ job[w] = Idle
  /\ received < MaxUpdates
  /\ \E u \in Users, op \in Ops :
        /\ <<u, w>> \in Routes
        /\ \E id \in IF op = "info" THEN Ids ELSE {0} :
             job' = [job EXCEPT ![w] =
               [Idle EXCEPT !.pc = "begin", !.op = op, !.user = u, !.id = id]]
  /\ received' = received + 1
  /\ UNCHANGED <<database, redis, serial, counts, faults>>

-----------------------------------------------------------------------------
(* Accounts come with /start and go with "delete my data".                 *)

Start(w) ==
  /\ At(w, "begin", {"start"})
  /\ IF account[job[w].user] = 0
       THEN account' = [account EXCEPT ![job[w].user] = serial] /\ serial' = serial + 1
       ELSE UNCHANGED <<account, serial>>
  /\ Done(w)
  /\ UNCHANGED <<mirrors, invoiced, redis, counts, received, faults>>

\* Variant of DeleteData: the mirrors are left (deleteData.go:168-171 lost).
DeleteDataNotMirrors(w) ==
  /\ At(w, "begin", {"delete"})
  /\ account' = [account EXCEPT ![job[w].user] = 0]
  /\ Done(w)
  /\ UNCHANGED <<mirrors, invoiced, redis, serial, counts, received, faults>>

\* runDeleteConfirm: the account and its mirrors, in one transaction; Redis and
\* the messages in the chat keep what they have.
DeleteData(w) ==
  /\ At(w, "begin", {"delete"})
  /\ account' = [account EXCEPT ![job[w].user] = 0]
  /\ mirrors' = {m \in mirrors : m.owner # account[job[w].user]}
  /\ Done(w)
  /\ UNCHANGED <<invoiced, redis, serial, counts, received, faults>>

-----------------------------------------------------------------------------
(* Creating a mirror (mirror.go).                                          *)

\* runCreateMirror: SETEX.
CreateMirror(w) ==
  /\ At(w, "begin", {"create"})
  /\ waiting' = waiting \cup {job[w].user}
  /\ asked' = [asked EXCEPT ![job[w].user] = @ + 1]
  /\ Done(w)
  /\ UNCHANGED <<database, view, serial, made, received, faults>>

\* runMirrorToken: EXISTS.  A text that does not look like a token leaves the
\* wait as it is.
NotWaiting(w) ==
  /\ At(w, "begin", {"token", "cancel", "malformed"})
  /\ job[w].user \notin waiting \/ job[w].op = "malformed"
  /\ Done(w)
  /\ UNCHANGED <<database, redis, serial, counts, received, faults>>

Waiting(w) ==
  /\ At(w, "begin", {"token", "cancel"})
  /\ job[w].user \in waiting
  /\ Goto(w, "clear")
  /\ UNCHANGED <<database, redis, serial, counts, received, faults>>

\* Variant of ClearWait: the wait is left to run out by itself.
KeepWait(w) ==
  /\ At(w, "clear", {"token", "cancel"})
  /\ IF job[w].op = "cancel" THEN Done(w) ELSE Goto(w, "owner")
  /\ UNCHANGED <<database, redis, serial, counts, received, faults>>

\* clearWaitingForToken: DEL.
ClearWait(w) ==
  /\ At(w, "clear", {"token", "cancel"})
  /\ waiting' = waiting \ {job[w].user}
  /\ IF job[w].op = "cancel" THEN Done(w) ELSE Goto(w, "owner")
  /\ UNCHANGED <<database, view, serial, counts, received, faults>>

\* createMirrorFromToken.  Telegram refuses the token, the bot is not in business
\* mode, or the sender has no row.
TokenRefused(w) ==
  /\ At(w, "owner", {"token"})
  /\ Done(w)
  /\ UNCHANGED <<database, redis, serial, counts, received, faults>>

FindOwner(w) ==
  /\ At(w, "owner", {"token"})
  /\ account[job[w].user] # 0
  /\ job' = [job EXCEPT ![w].pc = "count", ![w].uid = account[job[w].user]]
  /\ UNCHANGED <<database, redis, serial, counts, received, faults>>

Owned(uid, statuses) == {m \in mirrors : m.owner = uid /\ m.status \in statuses}

\* CountActiveMirrorsForOwner: free mirrors and those that are paid for now.
Active(uid) == Cardinality(Owned(uid, {"free", "paid"}))

\* Variant of CountMirrors: > for >= (mirror.go:135).
CountMirrorsOver(w) ==
  /\ At(w, "count", {"token"})
  /\ job' = [job EXCEPT ![w].pc = "insert",
       ![w].status = IF Active(job[w].uid) > FreeLimit THEN "pending" ELSE "free"]
  /\ UNCHANGED <<database, redis, serial, counts, received, faults>>

CountMirrors(w) ==
  /\ At(w, "count", {"token"})
  /\ job' = [job EXCEPT ![w].pc = "insert",
       ![w].status = IF Active(job[w].uid) >= FreeLimit THEN "pending" ELSE "free"]
  /\ UNCHANGED <<database, redis, serial, counts, received, faults>>

\* Variant of InsertMirror: the id is not drawn from the sequence.
InsertMirrorReusedId(w) ==
  /\ At(w, "insert", {"token"})
  /\ mirrors' = mirrors \cup {[id |-> serial, owner |-> job[w].uid, status |-> job[w].status]}
  /\ made' = [made EXCEPT ![job[w].user] = @ + 1]
  /\ job' = [job EXCEPT ![w].pc = "announce", ![w].id = serial]
  /\ UNCHANGED <<account, invoiced, redis, serial, asked, received, faults>>

InsertMirror(w) ==
  /\ At(w, "insert", {"token"})
  /\ mirrors' = mirrors \cup {[id |-> serial, owner |-> job[w].uid, status |-> job[w].status]}
  /\ serial' = serial + 1
  /\ made' = [made EXCEPT ![job[w].user] = @ + 1]
  /\ job' = [job EXCEPT ![w].pc = "announce", ![w].id = serial]
  /\ UNCHANGED <<account, invoiced, redis, asked, received, faults>>

\* emitMirrorPayment, or setMirrorWebhook and the message that all went well.
Announce(w) ==
  /\ At(w, "announce", {"token"})
  /\ invoiced' = IF job[w].status = "pending" THEN invoiced \cup {job[w].id} ELSE invoiced
  /\ Done(w)
  /\ UNCHANGED <<account, mirrors, redis, serial, counts, received, faults>>

-----------------------------------------------------------------------------
(* Details and deletion (mirrorInfo.go, mirrorSettings.go).                *)

\* runMirrorInfo: the mirror of the button, if it is there, is noted.
ViewMirror(w) ==
  /\ At(w, "begin", {"info"})
  /\ view' = IF \E m \in mirrors : m.id = job[w].id
               THEN [view EXCEPT ![job[w].user] = job[w].id]
               ELSE view
  /\ Done(w)
  /\ UNCHANGED <<database, waiting, serial, counts, received, faults>>

\* mirrorDeleteConfirm: HGET, then the row that was noted, whoever owns it.
\* Asking for approval and declining it change nothing.
ReadView(w) ==
  /\ At(w, "begin", {"confirm"})
  /\ LET noted == view[job[w].user]
     IN IF noted = 0 THEN Done(w)
        ELSE job' = [job EXCEPT ![w].pc = "remove", ![w].id = noted]
  /\ UNCHANGED <<database, redis, serial, counts, received, faults>>

RemoveMirror(w) ==
  /\ At(w, "remove", {"confirm"})
  /\ mirrors' = {m \in mirrors : m.id # job[w].id}
  /\ Done(w)
  /\ UNCHANGED <<account, invoiced, redis, serial, counts, received, faults>>

-----------------------------------------------------------------------------
(* What others do.                                                         *)

SetStatus(m, status) == mirrors' = (mirrors \ {m}) \cup {[m EXCEPT !.status = status]}

\* The invoice is paid; a month later the payment runs out.
Pay ==
  /\ \E m \in mirrors : m.status = "pending" /\ m.id \in invoiced /\ SetStatus(m, "paid")
  /\ UNCHANGED <<account, invoiced, redis, job, serial, counts, received, faults>>

RunOut ==
  /\ \E m \in mirrors : m.status = "paid" /\ SetStatus(m, "expired")
  /\ UNCHANGED <<account, invoiced, redis, job, serial, counts, received, faults>>

\* Ten minutes pass for a key.
ExpireKey ==
  /\ \E u \in Users :
       \/ u \in waiting /\ waiting' = waiting \ {u} /\ view' = view
       \/ view[u] # 0 /\ view' = [view EXCEPT ![u] = 0] /\ waiting' = waiting
  /\ UNCHANGED <<database, job, serial, counts, received, faults>>

\* A step fails, or the pod is killed: the handler ends where it is.
Fail(w) ==
  /\ job[w] # Idle
  /\ faults < MaxFaults
  /\ Done(w)
  /\ faults' = faults + 1
  /\ UNCHANGED <<database, redis, serial, counts, received>>

-----------------------------------------------------------------------------
Token(w) ==
  \/ NotWaiting(w) \/ Waiting(w) \/ ClearWait(w) \/ TokenRefused(w) \/ FindOwner(w)
  \/ CountMirrors(w) \/ InsertMirror(w) \/ Announce(w)

Menu(w) == ViewMirror(w) \/ ReadView(w) \/ RemoveMirror(w)

Next ==
  \/ \E w \in Workers :
       Receive(w) \/ Start(w) \/ DeleteData(w) \/ CreateMirror(w) \/ Token(w) \/ Menu(w)
         \/ Fail(w)
  \/ Pay \/ RunOut \/ ExpireKey

Spec == Init /\ [][Next]_vars

-----------------------------------------------------------------------------
(* Properties.                                                             *)

Statuses == {"free", "pending", "paid", "expired"}

\* Every variable has its type, and every id was drawn from the sequences.
TypeOK ==
  /\ serial \in Nat \ {0}
  /\ account \in [Users -> Ids]
  /\ mirrors \subseteq [id : Ids, owner : Ids, status : Statuses]
  /\ invoiced \subseteq Ids
  /\ waiting \subseteq Users
  /\ view \in [Users -> Ids]
  /\ job \in [Workers -> [pc : {"idle", "begin", "clear", "owner", "count", "insert",
                                "announce", "remove"},
                          op : Ops \cup {"none"}, user : Users \cup {0}, uid : Ids,
                          id : Ids, status : Statuses \cup {"none"}]]
  /\ asked \in [Users -> Nat] /\ made \in [Users -> Nat]
  /\ received \in 0 .. MaxUpdates /\ faults \in 0 .. MaxFaults

\* Nobody has more free mirrors than the limit, whatever he deletes, pays for or
\* lets run out while the count of mirror.go:128 grows old.  (Needs the updates of
\* one user to be handled one after another.)
FreeLimitKept == \A u \in Users :
  account[u] # 0 => Cardinality(Owned(account[u], {"free"})) <= FreeLimit

\* One /create_mirror makes one mirror at most: a token sent twice, a retry after a
\* failure or a token sent after /cancel makes none (mirror.go:90-110).
OneMirrorPerRequest == \A u \in Users : made[u] <= asked[u]

\* A mirror never outlives its owner's account: "delete my data" leaves none behind
\* (deleteData.go:168-171), also after a token, a payment or a button of the old
\* account.  (Like FreeLimitKept it needs one worker per user: nothing stops a token
\* that is being checked from making a mirror after the deletion.)
OwnerIsMember == \A m \in mirrors : \E u \in Users : account[u] = m.owner
=============================================================================
