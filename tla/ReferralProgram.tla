--------------------------- MODULE ReferralProgram ---------------------------
(***************************************************************************)
(* The referral programme: /start with an invitation code, connecting and  *)
(* disconnecting the bot (referralMain: sendReferral, handleLevels,        *)
(* updateReferral), choosing the kind of bonus, and deleting one's data.   *)
(*                                                                         *)
(* Several routing goroutines (Workers) run these handlers at once, each   *)
(* one update at a time.  A handler is a sequence of database transactions *)
(* at READ COMMITTED: every statement sees what is committed by then and   *)
(* its own writes, a row deleted by an open transaction is locked until it *)
(* ends, and nothing of an open transaction is visible until its COMMIT.   *)
(* A DELETE finds its rows when it begins and takes them one by one, in    *)
(* the order of the table.  The schema has no foreign keys.                *)
(***************************************************************************)
EXTENDS Integers, FiniteSets, FiniteSetsExt

CONSTANTS
  Users,          \* Telegram users
  Workers,        \* routing goroutines of the consumer
  Nobody,         \* no user: a /start without a code
  Routes,         \* <<user, worker>> pairs: which worker may get whose updates
  Threshold,      \* constants.ReferralBonusThresholdLevels
  NilIsPointer,   \* TRUE: e.Nil() is a non-nil *ErrorInfo (see Commit)
  AnySubset,      \* TRUE: GetUntrackedRelations may leave relations out
  RowsExpire,     \* TRUE: a UserLevels row may run out of its actual_until
  InitialPrefs,   \* preferences a settings row may be created with
  InitialAccount, \* the account each user has at the start (0: none)
  AccountIds,     \* ids an account may have
  FirstId,        \* the next value of the id sequences at the start
  Updates,        \* the updates that may arrive
  MaxUpdates,     \* bound: updates received
  MaxFaults       \* bound: failed statements, commits and emissions, killed pods

\* "absent" is a user without a settings row, "unset" the empty preference.
Prefs == {"money", "levels", "unset", "absent"}

UpdateType ==
  [op : {"start", "connect", "disconnect", "bonus", "delete"},
   user : Users, code : Users \cup {Nobody}, pref : {"money", "levels"}]

ASSUME RoutesAssumption == Routes \subseteq Users \X Workers
ASSUME ThresholdAssumption == Threshold \in Nat \ {0}
ASSUME SwitchAssumption ==
  {NilIsPointer, AnySubset, RowsExpire} \subseteq BOOLEAN
ASSUME NobodyAssumption == Nobody \notin Users
ASSUME PrefsAssumption == InitialPrefs \subseteq Prefs
ASSUME UpdatesAssumption == Updates \subseteq UpdateType
ASSUME BoundsAssumption == MaxUpdates \in Nat /\ MaxFaults \in Nat
ASSUME AccountAssumption ==
  /\ AccountIds \subseteq Nat \ {0}
  /\ InitialAccount \in [Users -> Nat]
  /\ FirstId \in Nat \ {0}
  /\ \A u \in Users : InitialAccount[u] < FirstId
  /\ \A u, v \in Users :
        InitialAccount[u] = InitialAccount[v] => u = v \/ InitialAccount[u] = 0

VARIABLES
  account,   \* telegramusers: the id of each user's row, 0 when there is none
  pref,      \* usersettings.referral_bonus_preference of that row
  referrals, \* the rows of referrals
  levels,    \* the rows of userlevels that recounts created
  expired,   \* ids of those rows whose actual_until is over
  job,       \* what each worker is doing
  serial,    \* the next value of the id sequences
  received,  \* updates received so far
  faults     \* faults so far

vars == <<account, pref, referrals, levels, expired, job, serial, received, faults>>

\* Of the open transaction: the rows its DELETE has still to take, the rows it has
\* deleted, the relations GetUntrackedRelations returned, the levels it inserted.
Idle == [pc |-> "idle", op |-> "none", user |-> Nobody, code |-> Nobody,
         pref |-> "unset", uid |-> 0, created |-> FALSE, ref |-> 0,
         inviter |-> 0, paid |-> FALSE, summary |-> {},
         left |-> {}, took |-> {}, untracked |-> {}, made |-> {}]

On(w, pc, op) == job[w].pc = pc /\ job[w].op = op

Exists(id) == \E u \in Users : account[u] = id

\* GetUserLevelSummary: a row counts one level until its actual_until.
Summary(owner) == {l.id : l \in {m \in levels : m.owner = owner /\ m.id \notin expired}}

Without(rows, ids) == {r \in rows : r.id \notin ids}
IdsOf(rows) == {r.id : r \in rows}

\* A row that another open transaction has deleted; whoever wants it waits.
Locked(w, id) == \E v \in Workers \ {w} : id \in job[v].took

-----------------------------------------------------------------------------
Init ==
  /\ account = InitialAccount
  /\ pref \in [Users -> InitialPrefs \cup {"absent"}]
  /\ \A u \in Users :
        IF account[u] = 0 THEN pref[u] = "absent" ELSE pref[u] \in InitialPrefs
  /\ referrals = {}
  /\ levels = {}
  /\ expired = {}
  /\ job = [w \in Workers |-> Idle]
  /\ serial = FirstId
  /\ received = 0
  /\ faults = 0

-----------------------------------------------------------------------------
(* An update reaches a worker.  Every handler but /start begins by reading *)
(* the sender's row and ends with an error when there is none; the bonus   *)
(* handler also reads the settings row.                                    *)

Receive(w) ==
  /\ job[w] = Idle
  /\ received < MaxUpdates
  /\ \E u \in Updates :
        /\ <<u.user, w>> \in Routes
        /\ u.op # "start" => account[u.user] # 0
        /\ u.op = "bonus" => pref[u.user] \notin {"absent", u.pref}
        /\ job' = [job EXCEPT ![w] =
             [Idle EXCEPT !.pc = "begin", !.op = u.op, !.user = u.user,
                          !.code = u.code, !.pref = u.pref, !.uid = account[u.user]]]
  /\ received' = received + 1
  /\ UNCHANGED <<account, pref, referrals, levels, expired, serial, faults>>

-----------------------------------------------------------------------------
(* /start (start/messages.go, run).  GetOrCreate, then the code's owner is *)
(* looked up and the referral inserted, all in one transaction; the        *)
(* inviter is told before the commit.                                      *)

\* GetOrCreate waits for an open signup of the same user (unique id hash).
OpenSignup(w, u) ==
  \E v \in Workers \ {w} : On(v, "commit", "start") /\ job[v].created /\ job[v].user = u

\* No referral of this account yet.
Invitable(uid) == \A r \in referrals : r.invited # uid

\* Variant of StartKnown: a known user with a code is looked up among the
\* invited ones instead of being refused (messages.go:202 dropped).
StartKnownInvites(w) ==
  /\ On(w, "begin", "start")
  /\ account[job[w].user] # 0
  /\ \E owner \in Users \ {job[w].user} :
        /\ job[w].code = owner
        /\ account[owner] # 0
        /\ Invitable(account[job[w].user])
        /\ job' = [job EXCEPT ![w].pc = "commit", ![w].uid = account[job[w].user],
                              ![w].ref = serial, ![w].inviter = account[owner]]
  /\ serial' = serial + 1
  /\ UNCHANGED <<account, pref, referrals, levels, expired, received, faults>>

\* A known user: whatever the code, createReferralModels answers "referral
\* already exists", which run ignores.
StartKnown(w) ==
  /\ On(w, "begin", "start")
  /\ account[job[w].user] # 0
  /\ job' = [job EXCEPT ![w].pc = "commit", ![w].uid = account[job[w].user]]
  /\ UNCHANGED <<account, pref, referrals, levels, expired, serial, received, faults>>

\* Variant of StartNew: the id is not drawn from the sequence.
StartNewReusedId(w) ==
  /\ On(w, "begin", "start")
  /\ account[job[w].user] = 0
  /\ job' = [job EXCEPT ![w].pc = "commit", ![w].uid = serial, ![w].created = TRUE]
  /\ UNCHANGED <<account, pref, referrals, levels, expired, serial, received, faults>>

\* A new user without a code, or with the code of the very row being created.
StartNew(w) ==
  /\ On(w, "begin", "start")
  /\ account[job[w].user] = 0
  /\ ~OpenSignup(w, job[w].user)
  /\ job[w].code \in {Nobody, job[w].user}
  /\ job' = [job EXCEPT ![w].pc = "commit", ![w].uid = serial, ![w].created = TRUE]
  /\ serial' = serial + 1
  /\ UNCHANGED <<account, pref, referrals, levels, expired, received, faults>>

\* Variant of StartInvited: the referral is inserted outside the transaction.
StartInvitedOutside(w) ==
  /\ On(w, "begin", "start")
  /\ account[job[w].user] = 0
  /\ \E owner \in Users \ {job[w].user} :
        /\ job[w].code = owner
        /\ account[owner] # 0
        /\ job' = [job EXCEPT ![w].pc = "commit", ![w].uid = serial, ![w].created = TRUE]
        /\ referrals' = referrals \cup
             {[id |-> serial + 1, inviter |-> account[owner], invited |-> serial,
               kind |-> "pending", money |-> FALSE]}
  /\ serial' = serial + 2
  /\ UNCHANGED <<account, pref, levels, expired, received, faults>>

\* A new user with somebody's code: the referral is inserted, the inviter told.
StartInvited(w) ==
  /\ On(w, "begin", "start")
  /\ account[job[w].user] = 0
  /\ ~OpenSignup(w, job[w].user)
  /\ \E owner \in Users \ {job[w].user} :
        /\ job[w].code = owner
        /\ account[owner] # 0
        /\ Invitable(serial)
        /\ job' = [job EXCEPT ![w].pc = "commit", ![w].uid = serial,
                              ![w].created = TRUE, ![w].ref = serial + 1,
                              ![w].inviter = account[owner]]
  /\ serial' = serial + 2
  /\ UNCHANGED <<account, pref, referrals, levels, expired, received, faults>>

\* A new user with a code nobody has (the lookup of the owner finds no row):
\* the error is returned and the deferred Rollback takes the signup with it.
StartUnknownCode(w) ==
  /\ On(w, "begin", "start")
  /\ account[job[w].user] = 0
  /\ ~OpenSignup(w, job[w].user)
  /\ job[w].code # Nobody
  /\ account[job[w].code] = 0
  /\ job' = [job EXCEPT ![w] = Idle]
  /\ serial' = serial + 1
  /\ UNCHANGED <<account, pref, referrals, levels, expired, received, faults>>

NewReferral(w) ==
  [id |-> job[w].ref, inviter |-> job[w].inviter, invited |-> job[w].uid,
   kind |-> "pending", money |-> FALSE]

StartCommit(w) ==
  /\ On(w, "commit", "start")
  /\ \/ /\ job[w].created
        /\ account' = [account EXCEPT ![job[w].user] = job[w].uid]
        /\ \E p \in InitialPrefs : pref' = [pref EXCEPT ![job[w].user] = p]
     \/ ~job[w].created /\ UNCHANGED <<account, pref>>
  /\ referrals' = referrals \cup IF job[w].ref = 0 THEN {} ELSE {NewReferral(w)}
  /\ job' = [job EXCEPT ![w] = Idle]
  /\ UNCHANGED <<levels, expired, serial, received, faults>>

-----------------------------------------------------------------------------
(* Choosing the kind of bonus (referral/referral.go, makeBonusTypeHandler):*)
(* one column of the row that was read, if it still exists.                *)

\* An open deletion of the same account has deleted the settings row.
SettingsLocked(w) ==
  \E v \in Workers \ {w} : On(v, "referrals", "delete") /\ job[v].uid = job[w].uid

BonusSave(w) ==
  /\ On(w, "begin", "bonus")
  /\ ~SettingsLocked(w)
  /\ pref' = IF account[job[w].user] = job[w].uid
               THEN [pref EXCEPT ![job[w].user] = job[w].pref]
               ELSE pref
  /\ job' = [job EXCEPT ![w] = Idle]
  /\ UNCHANGED <<account, referrals, levels, expired, serial, received, faults>>

-----------------------------------------------------------------------------
(* DELETE statements, of "delete my data" and of handleLevels: both delete *)
(* levels before referrals.                                                *)

\* The next row of the statement, once nobody else holds it; it may be gone by then.
TakeRow(w) ==
  /\ job[w].pc \in {"levels", "referrals"}
  /\ \E id \in job[w].left :
        /\ \A other \in job[w].left : id <= other
        /\ ~Locked(w, id)
        /\ job' = [job EXCEPT
             ![w].left = @ \ {id},
             ![w].took = @ \cup ({id} \cap (IdsOf(levels) \cup IdsOf(referrals)))]
  /\ UNCHANGED <<account, pref, referrals, levels, expired, serial, received, faults>>

\* Variant of ToDelete: the second WhereOr (deleteData.go:181) is lost.
ToDeleteAsInviter(w) ==
  IF job[w].op = "delete"
    THEN IdsOf({r \in referrals : r.inviter = job[w].uid})
    ELSE {job[w].ref}

\* The referrals to delete: of either side, or the one that was read.
ToDelete(w) ==
  IF job[w].op = "delete"
    THEN IdsOf({r \in referrals : job[w].uid \in {r.inviter, r.invited}})
    ELSE {job[w].ref}

\* The levels are deleted.  "Delete my data" goes on with the settings (mirrors and
\* payments), then both come to the referrals.
BeginReferrals(w) ==
  /\ job[w].pc = "levels"
  /\ job[w].left = {}
  /\ job[w].op = "delete" => ~SettingsLocked(w)
  /\ job' = [job EXCEPT ![w].pc = "referrals", ![w].left = ToDelete(w)]
  /\ UNCHANGED <<account, pref, referrals, levels, expired, serial, received, faults>>

-----------------------------------------------------------------------------
(* "Delete my data" (deleteData/deleteData.go, runDeleteConfirm): the rows *)
(* of the user that was read.                                              *)

BeginErase(w) ==
  /\ On(w, "begin", "delete")
  /\ job' = [job EXCEPT ![w].pc = "levels",
                        ![w].left = IdsOf({l \in levels : l.owner = job[w].uid})]
  /\ UNCHANGED <<account, pref, referrals, levels, expired, serial, received, faults>>

\* The row of telegramusers, and COMMIT.
EraseCommit(w) ==
  /\ On(w, "referrals", "delete")
  /\ job[w].left = {}
  /\ LET gone == {u \in Users : account[u] = job[w].uid}
     IN /\ account' = [u \in Users |-> IF u \in gone THEN 0 ELSE account[u]]
        /\ pref' = [u \in Users |-> IF u \in gone THEN "absent" ELSE pref[u]]
  /\ referrals' = Without(referrals, job[w].took)
  /\ levels' = Without(levels, job[w].took)
  /\ job' = [job EXCEPT ![w] = Idle]
  /\ UNCHANGED <<expired, serial, received, faults>>

-----------------------------------------------------------------------------
(* sendReferral (businessConnection/referral.go).                          *)

Connection == {"connect", "disconnect"}

\* getReferralAndLinkOwner: the referral of the actor, its inviter, and the
\* inviter's settings.
ReferralOf(w, r, inviter) ==
  /\ r \in referrals
  /\ r.invited = job[w].uid
  /\ inviter \in Users
  /\ account[inviter] = r.inviter
  /\ r.inviter # 0
  /\ pref[inviter] # "absent"

NoReferralOf(w) ==
  \A r \in referrals, inviter \in Users : ~ReferralOf(w, r, inviter)

LoadFails(w) ==
  /\ job[w].op \in Connection
  /\ job[w].pc \in {"begin", "reload"}
  /\ NoReferralOf(w)
  /\ job' = [job EXCEPT ![w] = Idle]
  /\ UNCHANGED <<account, pref, referrals, levels, expired, serial, received, faults>>

Load(w) ==
  /\ job[w].op \in Connection
  /\ job[w].pc = "begin"
  /\ \E r \in referrals, inviter \in Users :
        /\ ReferralOf(w, r, inviter)
        /\ job' = [job EXCEPT
             ![w].pc = IF pref[inviter] = "levels" THEN "select" ELSE "commit",
             ![w].ref = r.id, ![w].inviter = r.inviter]
  /\ UNCHANGED <<account, pref, referrals, levels, expired, serial, received, faults>>

\* handleLevels: GetUserLevelSummary and the UserLevels row that has the
\* referral among its linked_referral_ids.
Tracking(w) == {l \in levels : l.owner = job[w].inviter /\ job[w].ref \in l.linked}

\* Variant of SelectOnConnect: the level is not read before the recount.
SelectNoLevel(w) ==
  /\ On(w, "select", "connect")
  /\ job' = [job EXCEPT ![w] =
       IF Tracking(w) # {} THEN Idle ELSE [job[w] EXCEPT !.pc = "untracked"]]
  /\ UNCHANGED <<account, pref, referrals, levels, expired, serial, received, faults>>

SelectOnConnect(w) ==
  /\ On(w, "select", "connect")
  /\ job' = [job EXCEPT ![w] =
       IF Tracking(w) # {}
         THEN Idle           \* "referral already considered"
         ELSE [job[w] EXCEPT !.pc = "untracked", !.summary = Summary(job[w].inviter)]]
  /\ UNCHANGED <<account, pref, referrals, levels, expired, serial, received, faults>>

\* Variant of SelectOnDisconnect: the DELETEs of lines 124 and 129 are swapped.
SelectSwapped(w) ==
  /\ On(w, "select", "disconnect")
  /\ \/ /\ Tracking(w) = {}
        /\ job' = [job EXCEPT ![w].pc = "commit"]
     \/ \E l \in Tracking(w) :
           job' = [job EXCEPT ![w].pc = "levels", ![w].summary = Summary(job[w].inviter),
                              ![w].left = {job[w].ref}, ![w].ref = l.id]
  /\ UNCHANGED <<account, pref, referrals, levels, expired, serial, received, faults>>

\* The DELETEs of the bonus row and of the referral come before the recount.
SelectOnDisconnect(w) ==
  /\ On(w, "select", "disconnect")
  /\ \/ /\ Tracking(w) = {}
        /\ job' = [job EXCEPT ![w].pc = "commit"]
     \/ \E l \in Tracking(w) :
           job' = [job EXCEPT ![w].pc = "levels", ![w].summary = Summary(job[w].inviter),
                              ![w].left = {l.id}]
  /\ UNCHANGED <<account, pref, referrals, levels, expired, serial, received, faults>>

\* Variant of Untracked: the recount does not see that the referral was deleted.
UntrackedBefore(w) ==
  {r.id : r \in {r \in referrals :
      /\ r.inviter = job[w].inviter
      /\ \A l \in levels : r.id \in l.linked => l.id \in job[w].took}}

\* The inviter's referrals that no UserLevels row is linked to, as this transaction
\* sees the tables: without what it has deleted itself.
Untracked(w) ==
  {r.id : r \in {r \in Without(referrals, job[w].took) :
      /\ r.inviter = job[w].inviter
      /\ \A l \in Without(levels, job[w].took) : r.id \notin l.linked}}

GetUntracked(w) ==
  /\ job[w].op \in Connection
  /\ \/ job[w].pc = "untracked"
     \/ job[w].pc = "referrals" /\ job[w].left = {}
  /\ \E ids \in IF AnySubset THEN SUBSET Untracked(w) ELSE {Untracked(w)} :
        job' = [job EXCEPT ![w].pc = "recount", ![w].untracked = ids]
  /\ UNCHANGED <<account, pref, referrals, levels, expired, serial, received, faults>>

\* RecountLevels: one new row for every Threshold relations.
AddLevel(w) ==
  /\ job[w].pc = "recount"
  /\ \E group \in kSubset(Threshold, job[w].untracked) :
        job' = [job EXCEPT
          ![w].untracked = @ \ group,
          ![w].made = @ \cup {[id |-> serial, owner |-> job[w].inviter, linked |-> group]}]
  /\ serial' = serial + 1
  /\ UNCHANGED <<account, pref, referrals, levels, expired, received, faults>>

Recounted(w) == job[w].pc = "recount" /\ Cardinality(job[w].untracked) < Threshold

\* tx.Commit, then the message to the inviter, then updateReferral -- unless
\* the disconnect branch of referralMain takes e.Nil() for an error.
Commit(w) ==
  /\ job[w].op \in Connection
  /\ job[w].pc = "commit" \/ Recounted(w)
  /\ levels' = Without(levels, job[w].took) \cup job[w].made
  /\ referrals' = Without(referrals, job[w].took)
  /\ job' = [job EXCEPT ![w] =
       IF job[w].op = "disconnect" /\ NilIsPointer
         THEN Idle
         ELSE [Idle EXCEPT !.pc = "reload", !.op = job[w].op,
                           !.user = job[w].user, !.uid = job[w].uid]]
  /\ UNCHANGED <<account, pref, expired, serial, received, faults>>

-----------------------------------------------------------------------------
(* updateReferral: a second transaction, which reads everything again.     *)

Reload(w) ==
  /\ job[w].op \in Connection
  /\ job[w].pc = "reload"
  /\ \E r \in referrals, inviter \in Users :
        /\ ReferralOf(w, r, inviter)
        /\ job' = [job EXCEPT
             ![w].pc = "save", ![w].ref = r.id, ![w].pref = pref[inviter],
             ![w].paid = r.money \/ pref[inviter] = "money"]
  /\ UNCHANGED <<account, pref, referrals, levels, expired, serial, received, faults>>

\* Two columns of the row that was read, if it is still there; a money reward
\* that was fixed before stays.
SaveReward(w) ==
  /\ On(w, "save", "connect")
  /\ ~Locked(w, job[w].ref)
  /\ referrals' =
       {IF r.id = job[w].ref
          THEN [r EXCEPT !.kind = job[w].pref, !.money = job[w].paid]
          ELSE r : r \in referrals}
  /\ job' = [job EXCEPT ![w] = Idle]
  /\ UNCHANGED <<account, pref, levels, expired, serial, received, faults>>

DropReferral(w) ==
  /\ On(w, "save", "disconnect")
  /\ ~Locked(w, job[w].ref)
  /\ referrals' = {r \in referrals : r.id # job[w].ref}
  /\ job' = [job EXCEPT ![w] = Idle]
  /\ UNCHANGED <<account, pref, levels, expired, serial, received, faults>>

-----------------------------------------------------------------------------
(* A statement, a commit or an emission fails, or the pod is killed: the   *)
(* handler ends, its open transaction is lost, what it committed stays.    *)
(* The delivery was acknowledged before, so the update is not retried.     *)

Fail(w) ==
  /\ job[w] # Idle
  /\ faults < MaxFaults
  /\ job' = [job EXCEPT ![w] = Idle]
  /\ faults' = faults + 1
  /\ UNCHANGED <<account, pref, referrals, levels, expired, serial, received>>

\* A UserLevels row passes its actual_until.
Expire ==
  /\ RowsExpire
  /\ \E id \in IdsOf(levels) \ expired : expired' = expired \cup {id}
  /\ UNCHANGED <<account, pref, referrals, levels, job, serial, received, faults>>

-----------------------------------------------------------------------------
Start(w) ==
  StartKnown(w) \/ StartNew(w) \/ StartInvited(w) \/ StartUnknownCode(w) \/ StartCommit(w)

SendReferral(w) ==
  \/ LoadFails(w) \/ Load(w)
  \/ SelectOnConnect(w) \/ SelectOnDisconnect(w)
  \/ GetUntracked(w) \/ AddLevel(w) \/ Commit(w)

UpdateReferral(w) == Reload(w) \/ SaveReward(w) \/ DropReferral(w)

DeleteRows(w) == TakeRow(w) \/ BeginReferrals(w)

Erase(w) == BeginErase(w) \/ EraseCommit(w)

Step(w) ==
  \/ Start(w) \/ BonusSave(w) \/ DeleteRows(w) \/ Erase(w)
  \/ SendReferral(w) \/ UpdateReferral(w)

Next ==
  \/ \E w \in Workers : Receive(w) \/ Step(w) \/ Fail(w)
  \/ Expire

\* A goroutine that can run is scheduled.
Fairness == \A w \in Workers : WF_vars(Step(w))

Spec == Init /\ [][Next]_vars /\ Fairness
-----------------------------------------------------------------------------
(* Properties.                                                             *)

Ids == 0 .. serial - 1

ReferralType ==
  [id : Ids, inviter : Ids, invited : Ids,
   kind : Prefs \cup {"pending"}, money : BOOLEAN]

LevelType == [id : Ids, owner : Ids, linked : SUBSET Ids]

JobType ==
  [pc : {"idle", "begin", "select", "levels", "referrals", "untracked", "recount",
         "commit", "reload", "save"},
   op : {"none", "start", "bonus", "delete"} \cup Connection,
   user : Users \cup {Nobody}, code : Users \cup {Nobody}, pref : Prefs,
   uid : Ids, created : BOOLEAN, ref : Ids, inviter : Ids, paid : BOOLEAN,
   summary : SUBSET Ids, left : SUBSET Ids, took : SUBSET Ids, untracked : SUBSET Ids,
   made : SUBSET LevelType]

\* Every variable has its type, and every id was drawn from the sequences.
TypeOK ==
  /\ serial \in Nat \ {0}
  /\ account \in [Users -> Ids]
  /\ pref \in [Users -> Prefs]
  /\ referrals \subseteq ReferralType
  /\ levels \subseteq LevelType
  /\ expired \subseteq Ids
  /\ job \in [Workers -> JobType]
  /\ received \in 0 .. MaxUpdates
  /\ faults \in 0 .. MaxFaults

\* A person is invited at most once, whatever codes he starts the bot with, on
\* whatever worker and however his inviters come and go: createReferralModels
\* (messages.go:201-227) guards this without a unique index to rely on.
OneReferralPerInvited ==
  \A r, s \in referrals : r.invited = s.invited => r = s

\* Every referral and every level belongs to a member: nothing of a deleted
\* user survives runDeleteConfirm (deleteData.go:104), though no foreign key
\* helps it.
NothingOfTheDeleted ==
  /\ \A r \in referrals : Exists(r.inviter) /\ Exists(r.invited)
  /\ \A l \in levels : Exists(l.owner)

\* The invited side of that: a referral never outlives the person invited.
InvitedIsMember == \A r \in referrals : Exists(r.invited)

\* The level that handleLevels writes into the message (lines 150, 156, 191
\* and 195) when the transaction commits.
Told(w) ==
  LET level == Cardinality(job[w].summary)
      added == Cardinality(job[w].made)
  IN IF job[w].op = "disconnect" /\ added = 0 THEN level - 1 ELSE level + added

\* The level after the commit, at the time of the summary: what has run out since
\* then still counts.
LevelAfter(w) ==
  Cardinality({l \in levels' : l.owner = job[w].inviter /\ l.id \notin expired \ job[w].summary})

\* The transaction of a handler that has recounted is committed.
Tells(w, op) == Recounted(w) /\ job[w].op = op /\ Commit(w)

\* An inviter who is told his level after somebody connected is told the level
\* he then has (lines 187-199).
ToldOnConnect ==
  [][\A w \in Workers : Tells(w, "connect") => Told(w) = LevelAfter(w)]_vars

\* The same after somebody disconnected (lines 146-158).
ToldOnDisconnect ==
  [][\A w \in Workers : Tells(w, "disconnect") => Told(w) = LevelAfter(w)]_vars

\* The rows of the database as an abstract state of InvitationLifecycle.
Sponsored(a) == \E r \in referrals : r.invited = a
ReferralAbout(a) == CHOOSE r \in referrals : r.invited = a

Members == {account[u] : u \in Users} \ {0}
SponsorOf == [a \in AccountIds |-> IF Sponsored(a) THEN ReferralAbout(a).inviter ELSE 0]
RewardFor == [a \in AccountIds |-> IF Sponsored(a) THEN ReferralAbout(a).kind ELSE "none"]

Lifecycle == INSTANCE InvitationLifecycle WITH
  Accounts <- AccountIds, NoAccount <- 0, Rewards <- Prefs,
  member <- Members, sponsor <- SponsorOf, reward <- RewardFor

\* The programme implements it: an invitation is made at signup or never; a member
\* without a referral never gets one, neither by a later /start with a code nor by
\* connecting again after a disconnect (messages.go:202-204), its two ends never
\* change, and its reward is fixed by a connect only (updateReferral).
ImplementsLifecycle == Lifecycle!Spec

\* w waits for v: for its signup of the same user, its deletion of the settings, or a
\* row it has deleted.
WaitsFor(w, v) ==
  /\ w # v
  /\ \/ /\ On(w, "begin", "start") /\ account[job[w].user] = 0
        /\ On(v, "commit", "start") /\ job[v].created /\ job[v].user = job[w].user
     \/ /\ \/ On(w, "begin", "bonus")
           \/ On(w, "levels", "delete") /\ job[w].left = {}
        /\ On(v, "referrals", "delete") /\ job[v].uid = job[w].uid
     \/ /\ job[w].pc \in {"levels", "referrals"}
        /\ \E id \in job[w].left \cap job[v].took : \A other \in job[w].left : id <= other
     \/ job[w].pc = "save" /\ job[w].ref \in job[v].took

\* Handlers never wait for each other in a circle, though a disconnect holds the
\* bonus row while it waits for the referral (referral.go:124-129), and a deletion
\* what it has deleted of five tables (deleteData.go:159-182): of any of them, one
\* waits for none of the others.
NoDeadlock ==
  \A S \in (SUBSET Workers) \ {{}} : \E w \in S : \A v \in S : ~WaitsFor(w, v)

\* Every handler comes to its end, though handlers wait for each other's row
\* locks and signups.
HandlersFinish ==
  \A w \in Workers : job[w].pc # "idle" ~> job[w].pc = "idle"

\* When a disconnect that lowers the level is committed, no level counts the
\* invitation any more: not the row that is deleted, nor one that the recount of
\* the same transaction makes of what the deletion has set free (lines 124-144).
UncountedOnDisconnect ==
  [][\A w \in Workers :
       Tells(w, "disconnect") => \A l \in levels' : job[w].ref \notin l.linked]_vars
=============================================================================
