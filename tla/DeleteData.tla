------------------------------- MODULE DeleteData -------------------------------
(***************************************************************************)
(* "Delete my data" (endpoints/deleteData), statement by statement, beside *)
(* the handlers that write about the same account: signups with its code,  *)
(* and whatever inserts a mirror, a payment or a level for it.             *)
(*                                                                         *)
(* runDeleteConfirm drops the errors of its DELETE statements.  In         *)
(* PostgreSQL a failing statement aborts the transaction: the later ones   *)
(* fail too, and COMMIT rolls back without an error.                       *)
(***************************************************************************)
EXTENDS Integers, SequencesExt

CONSTANTS
  Users,          \* Telegram users
  Workers,        \* routing goroutines
  Routes,         \* <<user, worker>> pairs: which worker may get whose updates
  Nobody,         \* no user: a /start without a code
  Updates,        \* the updates that may arrive
  InitialAccount, \* the account each user has at the start (0: none)
  FirstId,        \* the next value of the id sequence at the start
  AccountIds,     \* ids an account may have
  MaxUpdates,     \* bound: updates received
  MaxFaults       \* bound: failed statements, commits and emissions, killed pods

\* The tables, in the order in which runDeleteConfirm cleans them; the row of
\* telegramusers comes last.
Order == <<"userlevels", "usersettings", "mirrors", "payments", "referrals">>
Tables == ToSet(Order)

Ops == {"start", "write", "ask", "cancel", "confirm"}

\* For "start", other is the owner of the code; for "write", whom the row is about.
UpdateType ==
  [op : Ops, user : Users, other : Users \cup {Nobody},
   table : {"userlevels", "mirrors", "payments"}]

ASSUME RoutesAssumption == Routes \subseteq Users \X Workers
ASSUME NobodyAssumption == Nobody \notin Users
ASSUME UpdatesAssumption ==
  /\ Updates \subseteq UpdateType
  /\ \A x \in Updates : x.op = "write" => x.other # Nobody
ASSUME BoundsAssumption == MaxUpdates \in Nat /\ MaxFaults \in Nat
ASSUME AccountAssumption ==
  /\ AccountIds \subseteq Nat \ {0}
  /\ InitialAccount \in [Users -> Nat]
  /\ FirstId \in Nat \ {0}
  /\ \A u \in Users : InitialAccount[u] < FirstId
  /\ \A u, v \in Users :
        InitialAccount[u] = InitialAccount[v] => u = v \/ InitialAccount[u] = 0

VARIABLES
  account,  \* telegramusers: the id of each user's row, 0 when there is none
  rows,     \* committed rows of the other tables, and the accounts they are about
  warnings, \* the warnings with their two buttons in each user's chat
  asked,    \* warnings sent so far
  job,      \* what each worker is doing
  serial,   \* the next value of the id sequences
  received, \* updates received so far
  faults    \* faults so far

vars == <<account, rows, warnings, asked, job, serial, received, faults>>

Idle == [pc |-> "idle", op |-> "none", user |-> Nobody, other |-> Nobody,
         table |-> "mirrors", warning |-> 0, uid |-> 0, code |-> 0,
         next |-> 0, seen |-> {}, doomed |-> {}, aborted |-> FALSE]

On(w, pc, op) == job[w].pc = pc /\ job[w].op = op
Done(w) == job' = [job EXCEPT ![w] = Idle]

Exists(id) == \E u \in Users : account[u] = id
Row(id, table, ids) == [id |-> id, table |-> table, of |-> ids]
RowsAbout(id) == {r \in rows : id \in r.of}

Init ==
  /\ account = InitialAccount
  /\ rows = {Row(account[u], "usersettings", {account[u]}) : u \in {v \in Users : account[v] # 0}}
  /\ warnings = [u \in Users |-> {}]
  /\ asked = 0
  /\ job = [w \in Workers |-> Idle]
  /\ serial = FirstId
  /\ received = 0
  /\ faults = 0

\* A button can be pressed as long as its message is in the chat, more than once.
Receive(w) ==
  /\ job[w] = Idle
  /\ received < MaxUpdates
  /\ \E x \in Updates :
        /\ <<x.user, w>> \in Routes
        /\ \E m \in IF x.op \in {"cancel", "confirm"} THEN warnings[x.user] ELSE {0} :
             job' = [job EXCEPT ![w] =
               [Idle EXCEPT !.pc = "begin", !.op = x.op, !.user = x.user, !.warning = m,
                            !.other = x.other, !.table = x.table]]
  /\ received' = received + 1
  /\ UNCHANGED <<account, rows, warnings, asked, serial, faults>>

-----------------------------------------------------------------------------
(* /start (start/messages.go, run): one transaction.                       *)

\* GetOrCreate waits for an open signup of the same user.
OpenSignup(w, u) ==
  \E v \in Workers \ {w} : On(v, "signup", "start") /\ job[v].user = u

\* A known user.
StartKnown(w) ==
  /\ On(w, "begin", "start")
  /\ account[job[w].user] # 0
  /\ Done(w)
  /\ UNCHANGED <<account, rows, warnings, asked, serial, received, faults>>

\* Variant of StartNew: the id is not drawn from the sequence.
StartNewReusedId(w) ==
  /\ On(w, "begin", "start")
  /\ account[job[w].user] = 0
  /\ job' = [job EXCEPT ![w].pc = "signup", ![w].uid = serial]
  /\ UNCHANGED <<account, rows, warnings, asked, serial, received, faults>>

\* A new one, invited if the code is somebody else's; a code nobody has ends the
\* handler with an error.
StartNew(w) ==
  LET x == job[w]
      inviter == IF x.other \in Users \ {x.user} THEN account[x.other] ELSE 0
  IN /\ On(w, "begin", "start")
     /\ account[x.user] = 0
     /\ ~OpenSignup(w, x.user)
     /\ IF x.other \in Users \ {x.user} /\ inviter = 0
          THEN Done(w)
          ELSE job' = [job EXCEPT ![w].pc = "signup", ![w].uid = serial, ![w].code = inviter]
     /\ serial' = serial + 1
     /\ UNCHANGED <<account, rows, warnings, asked, received, faults>>

StartCommit(w) ==
  LET x == job[w]
  IN /\ On(w, "signup", "start")
     /\ account' = [account EXCEPT ![x.user] = x.uid]
     /\ rows' = rows \cup {Row(serial, "usersettings", {x.uid})}
                     \cup IF x.code = 0 THEN {} ELSE {Row(serial, "referrals", {x.uid, x.code})}
     /\ serial' = serial + 1
     /\ Done(w)
     /\ UNCHANGED <<warnings, asked, received, faults>>

-----------------------------------------------------------------------------
(* Any handler that looks an account up and then inserts a row about it:   *)
(* createMirrorFromToken, a payment, a level for an inviter.               *)

FindOther(w) ==
  /\ On(w, "begin", "write")
  /\ IF account[job[w].other] = 0
       THEN Done(w)
       ELSE job' = [job EXCEPT ![w].pc = "write", ![w].uid = account[job[w].other]]
  /\ UNCHANGED <<account, rows, warnings, asked, serial, received, faults>>

Insert(w) ==
  /\ On(w, "write", "write")
  /\ rows' = rows \cup {Row(serial, job[w].table, {job[w].uid})}
  /\ serial' = serial + 1
  /\ Done(w)
  /\ UNCHANGED <<account, warnings, asked, received, faults>>

-----------------------------------------------------------------------------
(* The warning, and its two buttons.                                       *)

\* runDeleteData
Ask(w) ==
  /\ On(w, "begin", "ask")
  /\ asked' = asked + 1
  /\ warnings' = [warnings EXCEPT ![job[w].user] = @ \cup {asked'}]
  /\ Done(w)
  /\ UNCHANGED <<account, rows, serial, received, faults>>

Close(w) ==
  /\ warnings' = [warnings EXCEPT ![job[w].user] = @ \ {job[w].warning}]
  /\ Done(w)
  /\ UNCHANGED <<account, rows, asked, serial, received, faults>>

\* runDeleteCancel: the banner, then the warning is removed.
Cancel(w) == On(w, "begin", "cancel") /\ Close(w)

\* runDeleteConfirm: the banner, then the user is looked up.
NotAMember(w) ==
  /\ On(w, "begin", "confirm")
  /\ account[job[w].user] = 0
  /\ Done(w)
  /\ UNCHANGED <<account, rows, warnings, asked, serial, received, faults>>

Begin(w) ==
  /\ On(w, "begin", "confirm")
  /\ account[job[w].user] # 0
  /\ LET uid == account[job[w].user]
     IN job' = [job EXCEPT ![w].pc = "delete", ![w].uid = uid, ![w].next = 1,
                           ![w].seen = RowsAbout(uid)]
  /\ UNCHANGED <<account, rows, warnings, asked, serial, received, faults>>

\* What the next DELETE finds.
Matching(w) == {r \in RowsAbout(job[w].uid) : r.table = Order[job[w].next]}

Deleting(w) == job[w].pc = "delete" /\ job[w].next <= Len(Order)

\* Variant of Locked: a DELETE waits for every other deletion that has begun.
LockedByAny(w) == \E v \in Workers \ {w} : job[v].pc = "delete"

\* A row that another open transaction has deleted is waited for.
Locked(w) == \E v \in Workers \ {w} : job[v].doomed \cap Matching(w) # {}

Advance(w) == [job EXCEPT ![w].next = @ + 1]

\* Variant of Delete: db instead of tx.
DeleteOutside(w) ==
  /\ Deleting(w)
  /\ ~Locked(w)
  /\ rows' = rows \ Matching(w)
  /\ job' = Advance(w)
  /\ UNCHANGED <<account, warnings, asked, serial, received, faults>>

Delete(w) ==
  /\ Deleting(w)
  /\ ~Locked(w)
  /\ job' = [Advance(w) EXCEPT ![w].doomed =
                IF job[w].aborted THEN @ ELSE @ \cup Matching(w)]
  /\ UNCHANGED <<account, rows, warnings, asked, serial, received, faults>>

\* The statement fails and with it the transaction; the error is dropped.
DeleteFails(w) ==
  /\ Deleting(w)
  /\ ~job[w].aborted
  /\ faults < MaxFaults
  /\ faults' = faults + 1
  /\ job' = [Advance(w) EXCEPT ![w].aborted = TRUE, ![w].doomed = {}]
  /\ UNCHANGED <<account, rows, warnings, asked, serial, received>>

\* Variant of Commit: the last DELETE, of the user, is lost.
CommitKeepsUser(w) ==
  /\ job[w].pc = "delete"
  /\ job[w].next > Len(Order)
  /\ rows' = IF job[w].aborted THEN rows ELSE rows \ job[w].doomed
  /\ job' = [job EXCEPT ![w].pc = "tell", ![w].seen = {}, ![w].doomed = {}]
  /\ UNCHANGED <<account, warnings, asked, serial, received, faults>>

\* The row of telegramusers, the last statement, and COMMIT; of an aborted
\* transaction nothing remains, and nobody hears of it.
Commit(w) ==
  /\ job[w].pc = "delete"
  /\ job[w].next > Len(Order)
  /\ IF job[w].aborted
       THEN UNCHANGED <<account, rows>>
       ELSE /\ rows' = rows \ job[w].doomed
            /\ account' = [u \in Users |-> IF account[u] = job[w].uid THEN 0 ELSE account[u]]
  /\ job' = [job EXCEPT ![w].pc = "tell", ![w].seen = {}, ![w].doomed = {}]
  /\ UNCHANGED <<warnings, asked, serial, received, faults>>

\* The user is told that his data was deleted.
Tell(w) ==
  /\ On(w, "tell", "confirm")
  /\ job' = [job EXCEPT ![w].pc = "close"]
  /\ UNCHANGED <<account, rows, warnings, asked, serial, received, faults>>

CloseWarning(w) == On(w, "close", "confirm") /\ Close(w)

\* A statement whose error is returned, a commit or an emission fails, or the pod
\* is killed: the open transaction is lost.
Fail(w) ==
  /\ job[w] # Idle
  /\ faults < MaxFaults
  /\ faults' = faults + 1
  /\ Done(w)
  /\ UNCHANGED <<account, rows, warnings, asked, serial, received>>

-----------------------------------------------------------------------------
Start(w) == StartKnown(w) \/ StartNew(w) \/ StartCommit(w)
Confirm(w) ==
  \/ NotAMember(w) \/ Begin(w) \/ Delete(w) \/ Commit(w) \/ Tell(w) \/ CloseWarning(w)

Step(w) ==
  Start(w) \/ FindOther(w) \/ Insert(w) \/ Ask(w) \/ Cancel(w) \/ Confirm(w)

Next == \E w \in Workers : Receive(w) \/ Step(w) \/ DeleteFails(w) \/ Fail(w)

\* A goroutine that can run is scheduled.
Spec == Init /\ [][Next]_vars /\ \A w \in Workers : WF_vars(Step(w))

-----------------------------------------------------------------------------
(* Properties.                                                             *)

Ids == 0 .. serial - 1
RowType == [id : Ids, table : Tables, of : SUBSET Ids]

JobType ==
  [pc : {"idle", "begin", "signup", "write", "delete", "tell", "close"},
   op : Ops \cup {"none"}, user : Users \cup {Nobody}, other : Users \cup {Nobody},
   table : Tables, warning : 0 .. asked, uid : Ids, code : Ids,
   next : 0 .. Len(Order) + 1, seen : SUBSET RowType, doomed : SUBSET RowType,
   aborted : BOOLEAN]

\* Every variable has its type; what an open transaction has deleted is still there
\* for everybody else (no statement of another deletion slips past its locks).
TypeOK ==
  /\ serial \in Nat \ {0}
  /\ account \in [Users -> Ids]
  /\ rows \subseteq RowType
  /\ asked \in 0 .. MaxUpdates
  /\ warnings \in [Users -> SUBSET (1 .. asked)]
  /\ job \in [Workers -> JobType]
  /\ received \in 0 .. MaxUpdates
  /\ faults \in 0 .. MaxFaults
  /\ \A w \in Workers : job[w].doomed \subseteq rows

\* A member always has his settings, without which no page of his opens
\* (GetUserByTgIDWithSettings): signup and deletion, whatever fails in them and
\* whoever else deletes or signs up, leave nobody half there (deleteData.go:159-189).
MemberHasSettings ==
  \A u \in Users : account[u] # 0 =>
    \E r \in rows : r.table = "usersettings" /\ r.of = {account[u]}

Members == {account[u] : u \in Users} \ {0}
Erasing == [w \in Workers |-> IF job[w].pc = "delete" THEN job[w].uid ELSE 0]
Seen == [w \in Workers |-> job[w].seen]

Promise == INSTANCE Erasure WITH
  Accounts <- AccountIds, NoAccount <- 0, Handlers <- Workers,
  members <- Members, data <- rows, erasing <- Erasing, marked <- Seen

\* The deletion implements what it promises (deleteData.go:102-192): nothing about
\* an account goes without the account, and with it goes all that was there when
\* the transaction began, though rows come and other deletions share referrals.
ImplementsErasure == Promise!Spec

\* Deletions wait for rows that others have deleted, and signups for signups of the
\* same user, but no handler waits for ever.
HandlersFinish == \A w \in Workers : job[w].pc # "idle" ~> job[w].pc = "idle"

\* "Данные удалены успешно!" (deleteData.go:192): a user who is told so is no longer
\* a member with the account he has asked to delete.
ToldIsErased ==
  [][\A w \in Workers : Tell(w) => ~Exists(job[w].uid)]_vars
=============================================================================
