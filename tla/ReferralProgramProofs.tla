------------------------ MODULE ReferralProgramProofs ------------------------
(***************************************************************************)
(* Theorems about ReferralProgram for any users, workers, routes, bounds   *)
(* and any behaviour of the external recount, checked by TLAPS.            *)
(***************************************************************************)
EXTENDS ReferralProgram, TLAPS

-----------------------------------------------------------------------------
(* The type invariant.                                                     *)

TInv ==
  /\ TypeOK
  /\ \A w \in Workers : job[w] # Idle => job[w].user \in Users

LEMMA Interval == \A a, b \in Nat : a <= b => 0 .. a - 1 \subseteq 0 .. b - 1
OBVIOUS

LEMMA IdsGrow ==
  ASSUME TypeOK, serial' \in Nat, serial <= serial'
  PROVE  /\ Ids \subseteq Ids'
         /\ ReferralType \subseteq ReferralType'
         /\ LevelType \subseteq LevelType'
         /\ JobType \subseteq JobType'
<1>1. Ids \subseteq Ids'
  BY Interval DEF Ids, TypeOK
<1>2. ReferralType \subseteq ReferralType'
  BY <1>1 DEF ReferralType
<1>3. LevelType \subseteq LevelType'
  BY <1>1 DEF LevelType
<1>4. JobType \subseteq JobType'
  BY <1>1, <1>3, SMTT(60) DEF JobType
<1> QED BY <1>1, <1>2, <1>3, <1>4

LEMMA IdleType == TypeOK => Idle \in JobType
BY NobodyAssumption DEF TypeOK, Idle, JobType, Ids, Prefs

\* What is known of the worker that takes a step.
LEMMA Worker ==
  ASSUME TInv, NEW w \in Workers
  PROVE  /\ job[w] \in JobType
         /\ job[w].pc # "idle" => job[w].user \in Users
         /\ serial \in Nat \ {0}
BY DEF TInv, TypeOK, Idle

\* A step that draws no id leaves the types as they are.
LEMMA SameTypes ==
  ASSUME serial' = serial
  PROVE  Ids' = Ids /\ ReferralType' = ReferralType /\ LevelType' = LevelType /\ JobType' = JobType
BY DEF Ids, ReferralType, LevelType, JobType

\* The job that worker w ends up with is one, and ids are only ever added.
Moves(w, j) ==
  /\ job' = [job EXCEPT ![w] = j]
  /\ j \in JobType'
  /\ j # Idle => j.user \in Users
  /\ serial' \in Nat
  /\ serial <= serial'

LEMMA TypeStep ==
  ASSUME TInv, NEW w \in Workers, NEW j, Moves(w, j),
         account' \in [Users -> Ids'], pref' \in [Users -> Prefs],
         referrals' \subseteq ReferralType', levels' \subseteq LevelType',
         expired' \subseteq Ids',
         received' \in 0 .. MaxUpdates, faults' \in 0 .. MaxFaults
  PROVE  TInv'
<1>1. job' \in [Workers -> JobType']
  BY IdsGrow DEF TInv, TypeOK, Moves
<1>2. \A v \in Workers : job'[v] # Idle => job'[v].user \in Users
  BY DEF TInv, TypeOK, Moves
<1>3. serial' \in Nat \ {0}
  BY DEF TInv, TypeOK, Moves
<1>4. TypeOK'
  BY <1>1, <1>3 DEF TypeOK
<1>5. \A v \in Workers : (job[v] # Idle => job[v].user \in Users)'
  BY <1>2 DEF Idle
<1> QED BY <1>4, <1>5 DEF TInv

\* A step that only writes the worker's job, and may draw ids.
LEMMA JobStep ==
  ASSUME TInv, NEW w \in Workers, NEW j, Moves(w, j),
         UNCHANGED <<account, pref, referrals, levels, expired, received, faults>>
  PROVE  TInv'
<1>1. /\ account' \in [Users -> Ids'] /\ expired' \subseteq Ids'
      /\ referrals' \subseteq ReferralType' /\ levels' \subseteq LevelType'
  BY IdsGrow DEF TInv, TypeOK, Moves
<1> QED BY <1>1, TypeStep DEF TInv, TypeOK

\* A step that ends the handler, whatever rows it writes, without drawing ids.
LEMMA EndWithRows ==
  ASSUME TInv, NEW w \in Workers, job' = [job EXCEPT ![w] = Idle],
         UNCHANGED <<serial, expired, received, faults>>,
         account' \in [Users -> Ids], pref' \in [Users -> Prefs],
         referrals' \subseteq ReferralType, levels' \subseteq LevelType
  PROVE  TInv'
<1>1. Moves(w, Idle)
  BY IdleType, SameTypes, Worker DEF TInv, Moves
<1> QED BY <1>1, TypeStep, SameTypes DEF TInv, TypeOK

LEMMA IdleMoves ==
  ASSUME TInv, NEW w \in Workers, job' = [job EXCEPT ![w] = Idle],
         serial' \in Nat, serial <= serial'
  PROVE  Moves(w, Idle)
BY IdleType, IdsGrow DEF TInv, Moves

LEMMA InitType == Init => TInv
<1> SUFFICES ASSUME Init PROVE TInv
  OBVIOUS
<1>1. serial \in Nat \ {0} /\ account \in [Users -> Ids]
  BY AccountAssumption DEF Init, Ids
<1>2. pref \in [Users -> Prefs]
  BY PrefsAssumption DEF Init, Prefs
<1>3. Idle \in JobType
  BY <1>1, NobodyAssumption DEF Idle, JobType, Ids, Prefs
<1>4. TypeOK
  BY <1>1, <1>2, <1>3, BoundsAssumption DEF TypeOK, Init
<1> QED BY <1>4 DEF TInv, Init

-----------------------------------------------------------------------------
(* What each action does to the job of its worker.                         *)

LEMMA ReceiveMoves ==
  ASSUME TInv, NEW w \in Workers, Receive(w)
  PROVE  \E u \in Updates : \E j :
           /\ Moves(w, j)
           /\ j = [Idle EXCEPT !.pc = "begin", !.op = u.op, !.user = u.user,
                               !.code = u.code, !.pref = u.pref, !.uid = account[u.user]]
           /\ u.user \in Users
<1>1. PICK u \in Updates :
        job' = [job EXCEPT ![w] =
             [Idle EXCEPT !.pc = "begin", !.op = u.op, !.user = u.user,
                          !.code = u.code, !.pref = u.pref, !.uid = account[u.user]]]
  BY DEF Receive
<1> DEFINE j == [Idle EXCEPT !.pc = "begin", !.op = u.op, !.user = u.user,
                             !.code = u.code, !.pref = u.pref, !.uid = account[u.user]]
<1>2. u \in UpdateType
  BY UpdatesAssumption
<1>3. u.user \in Users /\ account[u.user] \in Ids
  BY <1>2 DEF UpdateType, TInv, TypeOK
<1>4. j \in JobType
  BY <1>2, <1>3, IdleType DEF UpdateType, Idle, JobType, Connection, Prefs, TInv
<1>5. j.user = u.user
  BY DEF Idle
<1>6. serial' = serial
  BY DEF Receive
<1> HIDE DEF j
<1>7. Moves(w, j)
  BY <1>1, <1>3, <1>4, <1>5, <1>6, SameTypes, Worker DEF Moves, j
<1> QED BY <1>3, <1>7 DEF j

LEMMA StartKnownMoves ==
  ASSUME TInv, NEW w \in Workers, StartKnown(w)
  PROVE  \E j : /\ Moves(w, j)
                /\ j = [job[w] EXCEPT !.pc = "commit", !.uid = account[job[w].user]]
                /\ job[w].user \in Users
<1> DEFINE j == [job[w] EXCEPT !.pc = "commit", !.uid = account[job[w].user]]
<1>1. job[w].user \in Users
  BY Worker DEF StartKnown, On
<1>2. account[job[w].user] \in Ids
  BY <1>1 DEF TInv, TypeOK
<1>3. j \in JobType /\ j.user = job[w].user
  BY <1>2, Worker DEF JobType
<1>4. job' = [job EXCEPT ![w] = j] /\ serial' = serial
  BY DEF StartKnown
<1> HIDE DEF j
<1>5. Moves(w, j)
  BY <1>1, <1>3, <1>4, SameTypes, Worker DEF Moves
<1> QED BY <1>1, <1>5 DEF j

LEMMA StartNewMoves ==
  ASSUME TInv, NEW w \in Workers, StartNew(w)
  PROVE  \E j : /\ Moves(w, j)
                /\ j = [job[w] EXCEPT !.pc = "commit", !.uid = serial, !.created = TRUE]
                /\ job[w].user \in Users
<1> DEFINE j == [job[w] EXCEPT !.pc = "commit", !.uid = serial, !.created = TRUE]
<1>1. job[w].user \in Users
  BY Worker DEF StartNew, On
<1>2. job' = [job EXCEPT ![w] = j] /\ serial' = serial + 1
  BY DEF StartNew
<1>3. serial' \in Nat /\ serial <= serial' /\ serial \in Ids'
  BY <1>2, Worker DEF Ids
<1>4. job[w] \in JobType'
  BY <1>3, IdsGrow, Worker DEF TInv
<1>5. j \in JobType' /\ j.user = job[w].user
  BY <1>3, <1>4 DEF JobType
<1> HIDE DEF j
<1>6. Moves(w, j)
  BY <1>1, <1>2, <1>3, <1>5 DEF Moves
<1> QED BY <1>1, <1>6 DEF j

LEMMA StartInvitedMoves ==
  ASSUME TInv, NEW w \in Workers, StartInvited(w)
  PROVE  \E owner \in Users : \E j :
           /\ Moves(w, j)
           /\ j = [job[w] EXCEPT !.pc = "commit", !.uid = serial, !.created = TRUE,
                                 !.ref = serial + 1, !.inviter = account[owner]]
           /\ account[owner] # 0
           /\ job[w].user \in Users
<1>1. PICK owner \in Users :
        /\ account[owner] # 0
        /\ job' = [job EXCEPT ![w].pc = "commit", ![w].uid = serial,
                             ![w].created = TRUE, ![w].ref = serial + 1,
                             ![w].inviter = account[owner]]
  BY DEF StartInvited
<1> DEFINE j == [job[w] EXCEPT !.pc = "commit", !.uid = serial, !.created = TRUE,
                               !.ref = serial + 1, !.inviter = account[owner]]
<1>2. job[w].user \in Users
  BY Worker DEF StartInvited, On
<1>3. job' = [job EXCEPT ![w] = j]
  BY <1>1
<1>4. serial' = serial + 2
  BY DEF StartInvited
<1>5. serial' \in Nat /\ serial <= serial' /\ serial \in Ids' /\ serial + 1 \in Ids'
  BY <1>4, Worker DEF Ids
<1>6. job[w] \in JobType' /\ account[owner] \in Ids'
  BY <1>5, IdsGrow, Worker DEF TInv, TypeOK
<1>7. j \in JobType' /\ j.user = job[w].user
  BY <1>5, <1>6 DEF JobType
<1> HIDE DEF j
<1>8. Moves(w, j)
  BY <1>2, <1>3, <1>5, <1>7 DEF Moves
<1> QED BY <1>1, <1>2, <1>8 DEF j

\* A step of a handler that draws no id and stays in one.
LEMMA Within ==
  ASSUME TInv, NEW w \in Workers, NEW j \in JobType,
         job' = [job EXCEPT ![w] = j], serial' = serial,
         job[w].pc # "idle", j.user = job[w].user
  PROVE  Moves(w, j)
BY SameTypes, Worker DEF Moves

LEMMA EndsQuietly ==
  ASSUME TInv, NEW w \in Workers, job' = [job EXCEPT ![w] = Idle], serial' = serial
  PROVE  Moves(w, Idle)
<1>1. serial' \in Nat /\ serial <= serial'
  BY Worker
<1> QED BY <1>1, IdleMoves

LEMMA TakeRowMoves ==
  ASSUME TInv, NEW w \in Workers, TakeRow(w)
  PROVE  \E id \in job[w].left : \E j :
           /\ Moves(w, j)
           /\ j = [job[w] EXCEPT
                !.left = @ \ {id},
                !.took = @ \cup ({id} \cap (IdsOf(levels) \cup IdsOf(referrals)))]
           /\ \A other \in job[w].left : id <= other
           /\ ~Locked(w, id)
<1> DEFINE rows == IdsOf(levels) \cup IdsOf(referrals)
<1>1. PICK id \in job[w].left :
        /\ \A other \in job[w].left : id <= other
        /\ ~Locked(w, id)
        /\ job' = [job EXCEPT ![w].left = @ \ {id}, ![w].took = @ \cup ({id} \cap rows)]
  BY DEF TakeRow
<1> DEFINE left == job[w].left \ {id}
           took == job[w].took \cup ({id} \cap rows)
           j == [job[w] EXCEPT !.left = left, !.took = took]
<1> HIDE DEF rows
<1>2. job' = [job EXCEPT ![w] = j]
  BY <1>1
<1>a. left \in SUBSET Ids /\ took \in SUBSET Ids
  BY Worker DEF JobType
<1> HIDE DEF left, took
<1>3. j \in JobType /\ j.user = job[w].user
  BY <1>a, Worker DEF JobType
<1>4. job[w].pc # "idle" /\ serial' = serial
  BY DEF TakeRow
<1> HIDE DEF j
<1>5. Moves(w, j)
  BY <1>2, <1>3, <1>4, Within
<1> QED BY <1>1, <1>5 DEF j, rows, left, took

LEMMA ToDeleteType == ASSUME TInv, NEW w \in Workers PROVE ToDelete(w) \subseteq Ids
BY Worker DEF ToDelete, IdsOf, TInv, TypeOK, ReferralType, JobType

LEMMA BeginReferralsMoves ==
  ASSUME TInv, NEW w \in Workers, BeginReferrals(w)
  PROVE  \E j : /\ Moves(w, j)
                /\ j = [job[w] EXCEPT !.pc = "referrals", !.left = ToDelete(w)]
<1> DEFINE j == [job[w] EXCEPT !.pc = "referrals", !.left = ToDelete(w)]
<1>1. j \in JobType /\ j.user = job[w].user
  BY ToDeleteType, Worker DEF JobType
<1>2. job' = [job EXCEPT ![w] = j] /\ job[w].pc # "idle" /\ serial' = serial
  BY DEF BeginReferrals
<1> HIDE DEF j
<1>3. Moves(w, j)
  BY <1>1, <1>2, Within
<1> QED BY <1>3 DEF j

LEMMA BeginEraseMoves ==
  ASSUME TInv, NEW w \in Workers, BeginErase(w)
  PROVE  \E j : /\ Moves(w, j)
                /\ j = [job[w] EXCEPT !.pc = "levels",
                          !.left = IdsOf({l \in levels : l.owner = job[w].uid})]
<1> DEFINE mine == IdsOf({l \in levels : l.owner = job[w].uid})
           j == [job[w] EXCEPT !.pc = "levels", !.left = mine]
<1>1. mine \subseteq Ids
  BY DEF IdsOf, TInv, TypeOK, LevelType
<1>2. job' = [job EXCEPT ![w] = j] /\ job[w].pc # "idle" /\ serial' = serial
  BY DEF BeginErase, On
<1> HIDE DEF mine
<1>3. j \in JobType /\ j.user = job[w].user
  BY <1>1, Worker DEF JobType
<1> HIDE DEF j
<1>4. Moves(w, j)
  BY <1>2, <1>3, Within
<1> QED BY <1>4 DEF j, mine

LEMMA LoadMoves ==
  ASSUME TInv, NEW w \in Workers, Load(w)
  PROVE  \E r \in referrals, inviter \in Users : \E j :
           /\ Moves(w, j)
           /\ j = [job[w] EXCEPT
                !.pc = IF pref[inviter] = "levels" THEN "select" ELSE "commit",
                !.ref = r.id, !.inviter = r.inviter]
<1>1. PICK r \in referrals, inviter \in Users :
        job' = [job EXCEPT
          ![w].pc = IF pref[inviter] = "levels" THEN "select" ELSE "commit",
          ![w].ref = r.id, ![w].inviter = r.inviter]
  BY DEF Load
<1> DEFINE pc == IF pref[inviter] = "levels" THEN "select" ELSE "commit"
           j == [job[w] EXCEPT !.pc = pc, !.ref = r.id, !.inviter = r.inviter]
<1>2. r.id \in Ids /\ r.inviter \in Ids /\ pc \in {"select", "commit"}
  BY DEF TInv, TypeOK, ReferralType
<1>3. job' = [job EXCEPT ![w] = j]
  BY <1>1
<1> HIDE DEF pc
<1>4. j \in JobType /\ j.user = job[w].user
  BY <1>2, Worker DEF JobType
<1>5. job[w].pc # "idle" /\ serial' = serial
  BY DEF Load
<1> HIDE DEF j
<1>6. Moves(w, j)
  BY <1>3, <1>4, <1>5, Within
<1> QED BY <1>6 DEF j, pc

LEMMA SummaryType == ASSUME TInv, NEW owner PROVE Summary(owner) \subseteq Ids
BY DEF Summary, TInv, TypeOK, LevelType

LEMMA SelectOnConnectMoves ==
  ASSUME TInv, NEW w \in Workers, SelectOnConnect(w)
  PROVE  \E j : /\ Moves(w, j)
                /\ \/ j = Idle
                   \/ j = [job[w] EXCEPT !.pc = "untracked",
                                         !.summary = Summary(job[w].inviter)]
<1>0. job[w].pc # "idle" /\ serial' = serial
  BY DEF SelectOnConnect, On
<1>1. CASE Tracking(w) # {}
  BY <1>0, <1>1, EndsQuietly DEF SelectOnConnect
<1>2. CASE Tracking(w) = {}
  <2> DEFINE j == [job[w] EXCEPT !.pc = "untracked", !.summary = Summary(job[w].inviter)]
  <2>1. j \in JobType /\ j.user = job[w].user
    BY SummaryType, Worker DEF JobType
  <2>2. job' = [job EXCEPT ![w] = j]
    BY <1>2 DEF SelectOnConnect
  <2> HIDE DEF j
  <2>3. Moves(w, j)
    BY <1>0, <2>1, <2>2, Within
  <2> QED BY <2>3 DEF j
<1> QED BY <1>1, <1>2

LEMMA SelectOnDisconnectMoves ==
  ASSUME TInv, NEW w \in Workers, SelectOnDisconnect(w)
  PROVE  \E j : /\ Moves(w, j)
                /\ \/ j = [job[w] EXCEPT !.pc = "commit"]
                   \/ \E l \in levels :
                        j = [job[w] EXCEPT !.pc = "levels",
                               !.summary = Summary(job[w].inviter), !.left = {l.id}]
<1>0. job[w].pc # "idle" /\ serial' = serial
  BY DEF SelectOnDisconnect, On
<1>1. CASE job' = [job EXCEPT ![w].pc = "commit"]
  <2> DEFINE j == [job[w] EXCEPT !.pc = "commit"]
  <2>1. j \in JobType /\ j.user = job[w].user
    BY Worker DEF JobType
  <2>2. job' = [job EXCEPT ![w] = j]
    BY <1>1
  <2> HIDE DEF j
  <2>3. Moves(w, j)
    BY <1>0, <2>1, <2>2, Within
  <2> QED BY <2>3 DEF j
<1>2. CASE \E l \in Tracking(w) :
             job' = [job EXCEPT ![w].pc = "levels", ![w].summary = Summary(job[w].inviter),
                                ![w].left = {l.id}]
  <2>0. PICK l \in Tracking(w) :
             job' = [job EXCEPT ![w].pc = "levels", ![w].summary = Summary(job[w].inviter),
                                ![w].left = {l.id}]
    BY <1>2
  <2> DEFINE j == [job[w] EXCEPT !.pc = "levels", !.summary = Summary(job[w].inviter),
                                 !.left = {l.id}]
  <2>1. l \in levels /\ l.id \in Ids
    BY DEF Tracking, TInv, TypeOK, LevelType
  <2>2. j \in JobType /\ j.user = job[w].user
    BY <2>1, SummaryType, Worker DEF JobType
  <2>3. job' = [job EXCEPT ![w] = j]
    BY <2>0
  <2> HIDE DEF j
  <2>4. Moves(w, j)
    BY <1>0, <2>2, <2>3, Within
  <2> QED BY <2>1, <2>4 DEF j
<1> QED BY <1>1, <1>2 DEF SelectOnDisconnect

LEMMA GetUntrackedMoves ==
  ASSUME TInv, NEW w \in Workers, GetUntracked(w)
  PROVE  \E ids \in SUBSET Untracked(w) : \E j :
           Moves(w, j) /\ j = [job[w] EXCEPT !.pc = "recount", !.untracked = ids]
<1>1. PICK ids \in SUBSET Untracked(w) :
        job' = [job EXCEPT ![w].pc = "recount", ![w].untracked = ids]
  BY SwitchAssumption DEF GetUntracked
<1> DEFINE j == [job[w] EXCEPT !.pc = "recount", !.untracked = ids]
<1>2. ids \subseteq Ids
  BY DEF Untracked, Without, TInv, TypeOK, ReferralType
<1>3. j \in JobType /\ j.user = job[w].user
  BY <1>2, Worker DEF JobType
<1>4. job' = [job EXCEPT ![w] = j] /\ job[w].pc # "idle" /\ serial' = serial
  BY <1>1 DEF GetUntracked
<1> HIDE DEF j
<1>5. Moves(w, j)
  BY <1>3, <1>4, Within
<1> QED BY <1>5 DEF j

LEMMA AddLevelMoves ==
  ASSUME TInv, NEW w \in Workers, AddLevel(w)
  PROVE  \E group \in SUBSET job[w].untracked : \E j :
           /\ Moves(w, j)
           /\ j = [job[w] EXCEPT
                !.untracked = @ \ group,
                !.made = @ \cup {[id |-> serial, owner |-> job[w].inviter, linked |-> group]}]
<1>1. PICK group \in SUBSET job[w].untracked :
        job' = [job EXCEPT
          ![w].untracked = @ \ group,
          ![w].made = @ \cup {[id |-> serial, owner |-> job[w].inviter, linked |-> group]}]
  BY DEF AddLevel, kSubset
<1> DEFINE row == [id |-> serial, owner |-> job[w].inviter, linked |-> group]
           j == [job[w] EXCEPT !.untracked = @ \ group, !.made = @ \cup {row}]
<1>2. serial' = serial + 1 /\ job[w].pc # "idle"
  BY DEF AddLevel
<1>3. serial' \in Nat /\ serial <= serial' /\ serial \in Ids'
  BY <1>2, Worker DEF Ids
<1>4. job[w] \in JobType'
  BY <1>3, IdsGrow, Worker DEF TInv
<1>5. row \in LevelType'
  BY <1>3, <1>4 DEF LevelType, JobType
<1>6. job' = [job EXCEPT ![w] = j]
  BY <1>1
<1> HIDE DEF row
<1>7. j \in JobType' /\ j.user = job[w].user
  BY <1>4, <1>5 DEF JobType
<1> HIDE DEF j
<1>8. Moves(w, j)
  BY <1>2, <1>3, <1>6, <1>7, Worker DEF Moves
<1> QED BY <1>8 DEF j, row

LEMMA CommitMoves ==
  ASSUME TInv, NEW w \in Workers, Commit(w)
  PROVE  \E j : /\ Moves(w, j)
                /\ \/ j = Idle
                   \/ j = [Idle EXCEPT !.pc = "reload", !.op = job[w].op,
                                       !.user = job[w].user, !.uid = job[w].uid]
<1> DEFINE j == [Idle EXCEPT !.pc = "reload", !.op = job[w].op,
                             !.user = job[w].user, !.uid = job[w].uid]
<1>1. job[w].pc # "idle" /\ serial' = serial
  BY DEF Commit, Recounted
<1>2. Idle \in JobType
  BY IdleType DEF TInv
<1>3. j \in JobType /\ j.user = job[w].user
  BY <1>2, Worker DEF JobType, Idle
<1>4. job' = [job EXCEPT ![w] = Idle] \/ job' = [job EXCEPT ![w] = j]
  BY DEF Commit
<1> HIDE DEF j
<1>5. CASE job' = [job EXCEPT ![w] = Idle]
  BY <1>1, <1>5, EndsQuietly
<1>6. CASE job' = [job EXCEPT ![w] = j]
  BY <1>1, <1>3, <1>6, Within DEF j
<1> QED BY <1>4, <1>5, <1>6

LEMMA ReloadMoves ==
  ASSUME TInv, NEW w \in Workers, Reload(w)
  PROVE  \E r \in referrals, inviter \in Users : \E j :
           /\ Moves(w, j)
           /\ j = [job[w] EXCEPT !.pc = "save", !.ref = r.id, !.pref = pref[inviter],
                                 !.paid = r.money \/ pref[inviter] = "money"]
<1>1. PICK r \in referrals, inviter \in Users :
        job' = [job EXCEPT
             ![w].pc = "save", ![w].ref = r.id, ![w].pref = pref[inviter],
             ![w].paid = r.money \/ pref[inviter] = "money"]
  BY DEF Reload
<1> DEFINE paid == r.money \/ pref[inviter] = "money"
           j == [job[w] EXCEPT !.pc = "save", !.ref = r.id, !.pref = pref[inviter],
                               !.paid = paid]
<1>2. r.id \in Ids /\ pref[inviter] \in Prefs /\ paid \in BOOLEAN
  BY DEF TInv, TypeOK, ReferralType
<1>3. job' = [job EXCEPT ![w] = j]
  BY <1>1
<1> HIDE DEF paid
<1>4. j \in JobType /\ j.user = job[w].user
  BY <1>2, Worker DEF JobType
<1>5. job[w].pc # "idle" /\ serial' = serial
  BY DEF Reload
<1> HIDE DEF j
<1>6. Moves(w, j)
  BY <1>3, <1>4, <1>5, Within
<1> QED BY <1>6 DEF j, paid

-----------------------------------------------------------------------------
(* Every action keeps the types.                                           *)

LEMMA ReceiveType ==
  ASSUME TInv, NEW w \in Workers, Receive(w)
  PROVE  TInv'
<1>1. PICK j : Moves(w, j)
  BY ReceiveMoves
<1>2. received < MaxUpdates /\ received' = received + 1 /\ faults' = faults
  BY DEF Receive
<1>3. received' \in 0 .. MaxUpdates /\ faults' \in 0 .. MaxFaults
  BY <1>2, BoundsAssumption DEF TInv, TypeOK
<1>4. UNCHANGED <<account, pref, referrals, levels, expired, serial>>
  BY DEF Receive
<1>5. /\ account' \in [Users -> Ids'] /\ pref' \in [Users -> Prefs] /\ expired' \subseteq Ids'
      /\ referrals' \subseteq ReferralType' /\ levels' \subseteq LevelType'
  BY <1>4, SameTypes DEF TInv, TypeOK
<1> QED BY <1>1, <1>3, <1>5, TypeStep

LEMMA FailType ==
  ASSUME TInv, NEW w \in Workers, Fail(w)
  PROVE  TInv'
<1>1. Moves(w, Idle)
  BY EndsQuietly DEF Fail
<1>2. faults' \in 0 .. MaxFaults /\ received' \in 0 .. MaxUpdates
  BY BoundsAssumption DEF Fail, TInv, TypeOK
<1>3. UNCHANGED <<account, pref, referrals, levels, expired, serial>>
  BY DEF Fail
<1>4. /\ account' \in [Users -> Ids'] /\ pref' \in [Users -> Prefs] /\ expired' \subseteq Ids'
      /\ referrals' \subseteq ReferralType' /\ levels' \subseteq LevelType'
  BY <1>3, SameTypes DEF TInv, TypeOK
<1> QED BY <1>1, <1>2, <1>4, TypeStep

LEMMA StartCommitType ==
  ASSUME TInv, NEW w \in Workers, StartCommit(w)
  PROVE  TInv'
<1>1. account' \in [Users -> Ids]
  BY Worker DEF StartCommit, TInv, TypeOK, JobType
<1>2. pref' \in [Users -> Prefs]
  BY PrefsAssumption DEF StartCommit, TInv, TypeOK
<1>3. NewReferral(w) \in ReferralType
  BY Worker DEF NewReferral, ReferralType, JobType
<1>4. referrals' \subseteq ReferralType
  BY <1>3 DEF StartCommit, TInv, TypeOK
<1> QED BY <1>1, <1>2, <1>4, EndWithRows DEF StartCommit, TInv, TypeOK

LEMMA StartType ==
  ASSUME TInv, NEW w \in Workers, Start(w)
  PROVE  TInv'
<1>1. CASE StartKnown(w)
  BY <1>1, StartKnownMoves, JobStep DEF StartKnown
<1>2. CASE StartNew(w)
  BY <1>2, StartNewMoves, JobStep DEF StartNew
<1>3. CASE StartInvited(w)
  <2>1. UNCHANGED <<account, pref, referrals, levels, expired, received, faults>>
    BY <1>3 DEF StartInvited
  <2> QED BY <1>3, <2>1, StartInvitedMoves, JobStep
<1>4. CASE StartUnknownCode(w)
  <2>1. serial' \in Nat /\ serial <= serial'
    BY <1>4, Worker DEF StartUnknownCode
  <2>2. Moves(w, Idle)
    BY <1>4, <2>1, IdleMoves DEF StartUnknownCode
  <2> QED BY <1>4, <2>2, JobStep DEF StartUnknownCode
<1>5. CASE StartCommit(w)
  BY <1>5, StartCommitType
<1> QED BY <1>1, <1>2, <1>3, <1>4, <1>5 DEF Start

LEMMA RowsType ==
  ASSUME TInv, NEW w \in Workers, BonusSave(w) \/ DeleteRows(w) \/ Erase(w)
  PROVE  TInv'
<1>1. CASE BonusSave(w)
  <2>1. job[w].pref \in Prefs /\ pref \in [Users -> Prefs]
    BY Worker DEF TInv, TypeOK, JobType
  <2>2. pref' \in [Users -> Prefs]
    BY <1>1, <2>1 DEF BonusSave
  <2> QED BY <1>1, <2>2, EndWithRows DEF BonusSave, TInv, TypeOK
<1>2. CASE TakeRow(w)
  <2>1. UNCHANGED <<account, pref, referrals, levels, expired, received, faults>>
    BY <1>2 DEF TakeRow
  <2> QED BY <1>2, <2>1, TakeRowMoves, JobStep
<1>3. CASE BeginReferrals(w)
  BY <1>3, BeginReferralsMoves, JobStep DEF BeginReferrals
<1>4. CASE BeginErase(w)
  BY <1>4, BeginEraseMoves, JobStep DEF BeginErase
<1>5. CASE EraseCommit(w)
  <2>1. account' \in [Users -> Ids] /\ pref' \in [Users -> Prefs]
    BY <1>5, Worker DEF EraseCommit, TInv, TypeOK, Prefs, Ids
  <2>2. referrals' \subseteq referrals /\ levels' \subseteq levels
    BY <1>5 DEF EraseCommit, Without
  <2> QED BY <1>5, <2>1, <2>2, EndWithRows DEF EraseCommit, TInv, TypeOK
<1> QED BY <1>1, <1>2, <1>3, <1>4, <1>5 DEF DeleteRows, Erase

LEMMA CommitType ==
  ASSUME TInv, NEW w \in Workers, Commit(w)
  PROVE  TInv'
<1>1. PICK j : Moves(w, j)
  BY CommitMoves
<1>2. UNCHANGED <<account, pref, expired, serial, received, faults>>
  BY DEF Commit
<1>3. job[w].made \subseteq LevelType
  BY Worker DEF JobType
<1>4. referrals' \subseteq ReferralType /\ levels' \subseteq LevelType
  BY <1>3 DEF Commit, Without, TInv, TypeOK
<1> QED BY <1>1, <1>2, <1>4, SameTypes, TypeStep DEF TInv, TypeOK

LEMMA SendType ==
  ASSUME TInv, NEW w \in Workers, SendReferral(w)
  PROVE  TInv'
<1>1. CASE LoadFails(w)
  BY <1>1, EndsQuietly, JobStep DEF LoadFails
<1>2. CASE Load(w)
  <2>1. UNCHANGED <<account, pref, referrals, levels, expired, received, faults>>
    BY <1>2 DEF Load
  <2> QED BY <1>2, <2>1, LoadMoves, JobStep
<1>3. CASE SelectOnConnect(w)
  BY <1>3, SelectOnConnectMoves, JobStep DEF SelectOnConnect
<1>4. CASE SelectOnDisconnect(w)
  BY <1>4, SelectOnDisconnectMoves, JobStep DEF SelectOnDisconnect
<1>5. CASE GetUntracked(w)
  <2>1. UNCHANGED <<account, pref, referrals, levels, expired, received, faults>>
    BY <1>5 DEF GetUntracked
  <2> QED BY <1>5, <2>1, GetUntrackedMoves, JobStep
<1>6. CASE AddLevel(w)
  <2>1. UNCHANGED <<account, pref, referrals, levels, expired, received, faults>>
    BY <1>6 DEF AddLevel
  <2> QED BY <1>6, <2>1, AddLevelMoves, JobStep
<1>7. CASE Commit(w)
  BY <1>7, CommitType
<1> QED BY <1>1, <1>2, <1>3, <1>4, <1>5, <1>6, <1>7 DEF SendReferral

\* SaveReward, row by row.
Saved(w, r) ==
  IF r.id = job[w].ref THEN [r EXCEPT !.kind = job[w].pref, !.money = job[w].paid] ELSE r

LEMMA SavedRow ==
  ASSUME TInv, NEW w \in Workers, NEW r \in referrals
  PROVE  /\ Saved(w, r) \in ReferralType
         /\ Saved(w, r).id = r.id /\ Saved(w, r).inviter = r.inviter
         /\ Saved(w, r).invited = r.invited
         /\ Saved(w, r).kind = IF r.id = job[w].ref THEN job[w].pref ELSE r.kind
<1>1. r \in ReferralType
  BY DEF TInv, TypeOK
<1>2. job[w].pref \in Prefs /\ job[w].paid \in BOOLEAN
  BY Worker DEF JobType
<1> QED BY <1>1, <1>2 DEF Saved, ReferralType

LEMMA SaveType ==
  ASSUME TInv, NEW w \in Workers, UpdateReferral(w)
  PROVE  TInv'
<1>1. CASE Reload(w)
  <2>1. UNCHANGED <<account, pref, referrals, levels, expired, received, faults>>
    BY <1>1 DEF Reload
  <2> QED BY <1>1, <2>1, ReloadMoves, JobStep
<1>2. CASE SaveReward(w)
  <2>1. referrals' = {Saved(w, r) : r \in referrals}
    BY <1>2 DEF SaveReward, Saved
  <2>2. referrals' \subseteq ReferralType
    BY <2>1, SavedRow
  <2> QED BY <1>2, <2>2, EndWithRows DEF SaveReward, TInv, TypeOK
<1>3. CASE DropReferral(w)
  <2>1. referrals' \subseteq ReferralType
    BY <1>3 DEF DropReferral, TInv, TypeOK
  <2> QED BY <1>3, <2>1, EndWithRows DEF DropReferral, TInv, TypeOK
<1> QED BY <1>1, <1>2, <1>3 DEF UpdateReferral

LEMMA ExpireType ==
  ASSUME TInv, Expire
  PROVE  TInv'
<1>1. expired' \subseteq Ids
  BY DEF Expire, IdsOf, TInv, TypeOK, LevelType
<1> QED BY <1>1, SameTypes DEF Expire, TInv, TypeOK

LEMMA StutterType ==
  ASSUME TInv, UNCHANGED vars
  PROVE  TInv'
BY SameTypes DEF vars, TInv, TypeOK

LEMMA NextType ==
  ASSUME TInv, [Next]_vars
  PROVE  TInv'
<1>1. ASSUME NEW w \in Workers, Receive(w) \/ Step(w) \/ Fail(w) PROVE TInv'
  BY <1>1, ReceiveType, StartType, RowsType, SendType, SaveType, FailType DEF Step
<1> QED BY <1>1, ExpireType, StutterType DEF Next

LEMMA TypeInvariant == Spec => []TInv
<1>1. Init => TInv
  BY InitType
<1>2. TInv /\ [Next]_vars => TInv'
  BY NextType
<1> QED BY <1>1, <1>2, PTL DEF Spec

\* Every variable keeps its type, and every id was drawn before it is used,
\* whatever handlers run at once on how many workers.
THEOREM TypeCorrect == Spec => []TypeOK
BY TypeInvariant, PTL DEF TInv

-----------------------------------------------------------------------------
(* One referral per person.  Inductively: ids are never shared, an open    *)
(* signup holds ids nobody else has, only an open signup holds a referral  *)
(* that is not in the table yet, and an open transaction deletes only the  *)
(* rows it is about.                                                       *)

Opening(w) == On(w, "commit", "start")

UniqueAccounts ==
  \A u, v \in Users : account[u] = account[v] => u = v \/ account[u] = 0

UniqueIds ==
  /\ \A r, s \in referrals : r.id = s.id => r = s
  /\ \A r \in referrals, l \in levels : r.id # l.id

ReferralRows ==
  \A r \in referrals : r.invited # 0 /\ r.inviter \notin {0, r.invited}

\* The rows a handler deletes, or is about to.
Holds(x) == x.left \cup x.took

\* The ids of rows a handler knows.
Knows(x) == Holds(x) \cup {x.ref} \cup IdsOf(x.made)

\* What a handler holds beside the rows of the tables.
Orderly(x) ==
  /\ x.pc = "begin" => x.ref = 0 /\ ~x.created
  /\ x.pc \in {"begin", "reload"} => Holds(x) = {}
  /\ x.pc \in {"levels", "referrals"} => x.op \in {"delete", "disconnect"}
  /\ \A r \in referrals : r.id \in Holds(x) =>
       \/ x.op = "delete" /\ x.uid \in {r.inviter, r.invited}
       \/ x.op = "disconnect" /\ r.id = x.ref
  /\ x.pc = "referrals" /\ x.op = "delete" =>
       \A r \in referrals : r.invited = x.uid => r.id \in Holds(x)
  /\ \A r \in referrals, m \in x.made : r.id # m.id

OrderlyJobs == \A w \in Workers : Orderly(job[w])

OpenSignups ==
  /\ \A w \in Workers : Opening(w) =>
       /\ job[w].created \/ job[w].ref = 0
       /\ job[w].created =>
            /\ job[w].uid # 0
            /\ ~Exists(job[w].uid)
            /\ account[job[w].user] = 0
            /\ \A r \in referrals : r.invited # job[w].uid
       /\ job[w].ref # 0 =>
            /\ job[w].inviter \notin {0, job[w].uid}
            /\ \A r \in referrals \cup levels : r.id # job[w].ref
  /\ \A v, w \in Workers : v # w /\ Opening(w) =>
       /\ job[w].created => job[v].uid # job[w].uid
       /\ job[w].ref # 0 => job[w].ref \notin Knows(job[v])
       /\ job[w].created /\ Opening(v) /\ job[v].created => job[v].user # job[w].user

IInv ==
  /\ TInv
  /\ UniqueAccounts
  /\ UniqueIds
  /\ ReferralRows
  /\ OrderlyJobs
  /\ OpenSignups
  /\ InvitedIsMember
  /\ OneReferralPerInvited

LEMMA InitInv == Init => IInv
<1> SUFFICES ASSUME Init PROVE IInv
  OBVIOUS
<1>1. TInv
  BY InitType
<1>2. UniqueAccounts
  BY AccountAssumption DEF Init, UniqueAccounts
<1>3. OpenSignups
  BY DEF Init, OpenSignups, Opening, On, Idle
<1>4. OrderlyJobs
  BY DEF Init, OrderlyJobs, Orderly, Holds, Idle
<1> QED
  BY <1>1, <1>2, <1>3, <1>4
     DEF Init, IInv, UniqueIds, ReferralRows, InvitedIsMember, OneReferralPerInvited

LEMMA Jobs ==
  ASSUME TInv, NEW w \in Workers, NEW j, Moves(w, j)
  PROVE  job'[w] = j /\ \A v \in Workers \ {w} : job'[v] = job[v]
BY DEF TInv, TypeOK, Moves

\* Ids that are drawn in a step are new.
LEMMA Fresh ==
  ASSUME TInv
  PROVE  /\ \A r \in referrals : r.id < serial /\ r.invited < serial
         /\ \A l \in levels : l.id < serial
         /\ \A u \in Users : account[u] < serial
         /\ \A v \in Workers :
              /\ job[v].uid < serial
              /\ \A id \in Knows(job[v]) : id \in Nat /\ id < serial
<1>1. serial \in Nat /\ \A id \in Ids : id \in Nat /\ id < serial
  BY DEF TInv, TypeOK, Ids
<1>2. ASSUME NEW v \in Workers
      PROVE  /\ job[v].uid \in Ids /\ Knows(job[v]) \subseteq Ids
  <2>1. job[v] \in JobType
    BY Worker
  <2>2. IdsOf(job[v].made) \subseteq Ids
    BY <2>1 DEF IdsOf, JobType, LevelType
  <2> QED BY <2>1, <2>2 DEF Knows, Holds, JobType
<1>3. /\ \A r \in referrals : r.id \in Ids /\ r.invited \in Ids
      /\ \A l \in levels : l.id \in Ids
      /\ \A u \in Users : account[u] \in Ids
  BY DEF TInv, TypeOK, ReferralType, LevelType
<1> QED BY <1>1, <1>2, <1>3

\* Most steps leave the accounts alone, add no referral and open no signup; what
\* they know they have read, or drawn.
LEMMA QuietStep ==
  ASSUME IInv, TInv', NEW w \in Workers, NEW j, Moves(w, j),
         ~(j.pc = "commit" /\ j.op = "start"),
         Orderly(j)',
         j.uid \in {0, job[w].uid} \/ Exists(j.uid),
         Knows(j) \subseteq Knows(job[w]) \cup {0, serial} \cup IdsOf(levels) \cup IdsOf(referrals),
         account' = account, referrals' \subseteq referrals,
         levels' \subseteq levels \cup job[w].made
  PROVE  IInv'
<1>0. job'[w] = j /\ \A v \in Workers \ {w} : job'[v] = job[v]
  BY Jobs DEF IInv
<1>1. \A v \in Workers : Opening(v)' => v # w /\ Opening(v)
  BY <1>0 DEF Opening, On
<1>2. \A id : Exists(id)' <=> Exists(id)
  BY DEF Exists
<1>3. \A v \in Workers : Orderly(job[v])
  BY DEF IInv, OrderlyJobs
<1>4. OrderlyJobs'
  <2>1. ASSUME NEW v \in Workers \ {w} PROVE Orderly(job[v])'
    BY <1>0, <1>3, <2>1 DEF Orderly
  <2> QED BY <1>0, <2>1 DEF OrderlyJobs
<1>5. UniqueIds'
  BY <1>3 DEF IInv, UniqueIds, Orderly
<1>6. UniqueAccounts' /\ ReferralRows' /\ OneReferralPerInvited'
  BY DEF IInv, UniqueAccounts, ReferralRows, OneReferralPerInvited
<1>7. InvitedIsMember'
  BY <1>2 DEF IInv, InvitedIsMember
<1>8. OpenSignups'
  <2>1. ASSUME NEW v \in Workers, Opening(v)'
        PROVE  /\ v # w /\ Opening(v) /\ job'[v] = job[v]
               /\ job[v].created \/ job[v].ref = 0
               /\ job[v].created =>
                    /\ job[v].uid # 0
                    /\ ~Exists(job[v].uid)'
                    /\ account'[job[v].user] = 0
                    /\ \A r \in referrals' : r.invited # job[v].uid
               /\ job[v].ref # 0 =>
                    /\ job[v].inviter \notin {0, job[v].uid}
                    /\ \A r \in referrals' \cup levels' : r.id # job[v].ref
    <3>1. v # w /\ Opening(v) /\ job'[v] = job[v]
      BY <1>0, <1>1, <2>1
    <3>2. job[v].ref # 0 => \A m \in job[w].made : m.id # job[v].ref
      BY <3>1 DEF IInv, OpenSignups, Knows, IdsOf
    <3> QED BY <1>2, <3>1, <3>2 DEF IInv, OpenSignups
  <2>2. ASSUME NEW x \in Workers, NEW v \in Workers, v # x, Opening(x)'
        PROVE  /\ job[x].created => job'[v].uid # job[x].uid
               /\ job[x].ref # 0 => job[x].ref \notin Knows(job'[v])
               /\ job[x].created /\ Opening(v)' /\ job'[v].created =>
                    job'[v].user # job[x].user
    <3>1. x # w /\ Opening(x) /\ job'[x] = job[x]
      BY <1>0, <1>1, <2>2
    <3>2. CASE v # w
      BY <1>0, <1>1, <2>2, <3>1, <3>2 DEF IInv, OpenSignups
    <3>3. CASE v = w
      <4>1. ~Opening(w)'
        BY <1>1
      <4>2. job[x].created => j.uid # job[x].uid
        BY <3>1, <3>3 DEF IInv, OpenSignups
      <4>3. job[x].ref # 0 =>
              job[x].ref \notin Knows(job[w]) \cup {0, serial} \cup IdsOf(levels) \cup IdsOf(referrals)
        <5>1. job[x].ref < serial /\ serial \in Nat /\ job[x].ref \in Nat
          BY Fresh, Worker DEF IInv, Knows
        <5> QED BY <3>1, <3>3, <5>1 DEF IInv, OpenSignups, IdsOf
      <4> QED BY <1>0, <3>3, <4>1, <4>2, <4>3
    <3> QED BY <3>2, <3>3
  <2> QED BY <2>1, <2>2 DEF OpenSignups
<1> QED BY <1>4, <1>5, <1>6, <1>7, <1>8 DEF IInv

\* A step of /start up to its commit.
LEMMA OpeningStep ==
  ASSUME IInv, TInv', NEW w \in Workers, NEW j, Moves(w, j),
         UNCHANGED <<account, referrals, levels>>,
         job[w].pc = "begin",
         j.pc = "commit", Holds(j) = {}, j.made = job[w].made,
         j.created \/ j.ref = 0,
         ~j.created => Exists(j.uid),
         j.created => /\ j.uid # 0 /\ ~Exists(j.uid)
                      /\ account[j.user] = 0 /\ ~OpenSignup(w, j.user)
                      /\ \A r \in referrals : r.invited # j.uid
                      /\ \A v \in Workers : job[v].uid # j.uid,
         j.ref # 0 => /\ j.inviter \notin {0, j.uid}
                      /\ \A r \in referrals \cup levels : r.id # j.ref
                      /\ \A v \in Workers : j.ref \notin Knows(job[v])
  PROVE  IInv'
<1>0. job'[w] = j /\ \A v \in Workers \ {w} : job'[v] = job[v]
  BY Jobs DEF IInv
<1>1. \A v \in Workers \ {w} : Opening(v)' <=> Opening(v)
  BY <1>0 DEF Opening, On
<1>2. \A id : Exists(id)' <=> Exists(id)
  BY DEF Exists
<1>3. \A v \in Workers : Orderly(job[v])
  BY DEF IInv, OrderlyJobs
<1>4. OrderlyJobs'
  <2>1. ASSUME NEW v \in Workers \ {w} PROVE Orderly(job[v])'
    BY <1>0, <1>3, <2>1 DEF Orderly
  <2>2. Orderly(j)'
    BY <1>3 DEF Orderly
  <2> QED BY <1>0, <2>1, <2>2 DEF OrderlyJobs
<1>5. OpenSignups'
  <2>1. ASSUME NEW x \in Workers, Opening(x)', x # w
        PROVE  /\ job[x].created => j.uid # job[x].uid /\ (j.created => j.user # job[x].user)
               /\ job[x].ref # 0 => job[x].ref \notin Knows(j)
               /\ job[x].created => ~Exists(job[x].uid)
    <3>1. Opening(x) /\ job[x].pc = "commit" /\ job[x].op = "start"
      BY <1>1, <2>1 DEF Opening, On
    <3>2. job[x].created => j.uid # job[x].uid /\ (j.created => j.user # job[x].user)
      BY <2>1, <3>1 DEF IInv, OpenSignups, OpenSignup, On
    <3>3. job[x].ref # 0 => job[x].ref \notin Knows(job[w]) /\ job[x].ref # j.ref
      BY <2>1, <3>1 DEF IInv, OpenSignups, Knows
    <3> QED BY <3>1, <3>2, <3>3 DEF IInv, OpenSignups, Knows
  <2> QED BY <1>0, <1>1, <1>2, <2>1 DEF IInv, OpenSignups
<1> QED
  BY <1>2, <1>4, <1>5
     DEF IInv, UniqueAccounts, UniqueIds, ReferralRows, OneReferralPerInvited, InvitedIsMember

LEMMA StartInv ==
  ASSUME IInv, TInv', NEW w \in Workers,
         StartKnown(w) \/ StartNew(w) \/ StartInvited(w) \/ StartUnknownCode(w)
  PROVE  IInv'
<1>0. job[w] \in JobType /\ serial \in Nat \ {0}
  BY Worker DEF IInv
<1>f. /\ \A r \in referrals : r.id < serial /\ r.invited < serial
      /\ \A l \in levels : l.id < serial
      /\ \A u \in Users : account[u] < serial
      /\ \A v \in Workers :
           /\ job[v].uid < serial
           /\ \A id \in Knows(job[v]) : id \in Nat /\ id < serial
  BY Fresh DEF IInv
<1>n. /\ \A r \in referrals \cup levels : r.id # serial + 1
      /\ \A r \in referrals : r.invited # serial
      /\ ~Exists(serial)
      /\ \A v \in Workers : job[v].uid # serial /\ serial + 1 \notin Knows(job[v])
  <2>1. \A x, n \in Int : x < n => x # n /\ x # n + 1
    OBVIOUS
  <2>2. /\ \A r \in referrals : r.id \in Int /\ r.invited \in Int
        /\ \A l \in levels : l.id \in Int
        /\ \A u \in Users : account[u] \in Int
        /\ \A v \in Workers : job[v].uid \in Int
    BY Worker DEF IInv, TInv, TypeOK, ReferralType, LevelType, Ids, JobType
  <2> QED BY <1>0, <1>f, <2>1, <2>2 DEF Exists
<1>b. job[w].pc = "begin" => Holds(job[w]) = {} /\ job[w].ref = 0 /\ ~job[w].created
  BY DEF IInv, OrderlyJobs, Orderly
<1>1. CASE StartKnown(w)
  <2>1. PICK j : /\ Moves(w, j)
                 /\ j = [job[w] EXCEPT !.pc = "commit", !.uid = account[job[w].user]]
                 /\ job[w].user \in Users
    BY <1>1, StartKnownMoves DEF IInv
  <2>2. /\ j.pc = "commit" /\ j.ref = job[w].ref /\ j.created = job[w].created
        /\ j.left = job[w].left /\ j.took = job[w].took /\ j.made = job[w].made
        /\ j.uid = account[job[w].user]
    BY <1>0, <2>1 DEF JobType
  <2>3. job[w].pc = "begin" /\ UNCHANGED <<account, referrals, levels>>
    BY <1>1 DEF StartKnown, On
  <2>4. Exists(j.uid)
    BY <2>1, <2>2 DEF Exists
  <2>5. Holds(j) = {}
    BY <1>b, <2>2, <2>3 DEF Holds
  <2> QED BY <1>b, <2>1, <2>2, <2>3, <2>4, <2>5, OpeningStep
<1>2. CASE StartNew(w)
  <2>1. PICK j : /\ Moves(w, j)
                 /\ j = [job[w] EXCEPT !.pc = "commit", !.uid = serial, !.created = TRUE]
    BY <1>2, StartNewMoves DEF IInv
  <2>2. /\ j.pc = "commit" /\ j.ref = job[w].ref /\ j.created /\ j.uid = serial
        /\ j.left = job[w].left /\ j.took = job[w].took /\ j.made = job[w].made
        /\ j.user = job[w].user
    BY <1>0, <2>1 DEF JobType
  <2>3. /\ job[w].pc = "begin" /\ UNCHANGED <<account, referrals, levels>>
        /\ account[job[w].user] = 0 /\ ~OpenSignup(w, job[w].user)
    BY <1>2 DEF StartNew, On
  <2>4. Holds(j) = {}
    BY <1>b, <2>2, <2>3 DEF Holds
  <2> QED BY <1>0, <1>b, <1>n, <2>1, <2>2, <2>3, <2>4, OpeningStep
<1>3. CASE StartInvited(w)
  <2>1. PICK owner, j :
          /\ owner \in Users
          /\ Moves(w, j)
          /\ j = [job[w] EXCEPT !.pc = "commit", !.uid = serial, !.created = TRUE,
                                !.ref = serial + 1, !.inviter = account[owner]]
          /\ account[owner] # 0
    BY <1>3, StartInvitedMoves DEF IInv
  <2>2. /\ j.pc = "commit" /\ j.ref = serial + 1 /\ j.created /\ j.uid = serial
        /\ j.inviter = account[owner]
        /\ j.left = job[w].left /\ j.took = job[w].took /\ j.made = job[w].made
        /\ j.user = job[w].user
    BY <1>0, <2>1 DEF JobType
  <2>3. /\ job[w].pc = "begin" /\ UNCHANGED <<account, referrals, levels>>
        /\ account[job[w].user] = 0 /\ ~OpenSignup(w, job[w].user)
    BY <1>3 DEF StartInvited, On
  <2>4. Holds(j) = {}
    BY <1>b, <2>2, <2>3 DEF Holds
  <2>5. j.inviter \notin {0, j.uid}
    <3>1. account[owner] # serial
      <4>1. owner \in Users
        BY <2>1
      <4> QED BY <1>n, <4>1 DEF Exists
    <3> QED BY <2>1, <2>2, <3>1
  <2>6. /\ j.uid # 0 /\ ~Exists(j.uid)
        /\ account[j.user] = 0 /\ ~OpenSignup(w, j.user)
        /\ \A r \in referrals : r.invited # j.uid
        /\ \A v \in Workers : job[v].uid # j.uid
    BY <1>0, <1>n, <2>2, <2>3
  <2>7. /\ \A r \in referrals \cup levels : r.id # j.ref
        /\ \A v \in Workers : j.ref \notin Knows(job[v])
    BY <1>n, <2>2
  <2>8. Moves(w, j)
    BY <2>1
  <2> QED BY <2>2, <2>3, <2>4, <2>5, <2>6, <2>7, <2>8, OpeningStep
<1>4. CASE StartUnknownCode(w)
  <2>1. serial' \in Nat /\ serial <= serial'
    BY <1>0, <1>4 DEF StartUnknownCode
  <2>2. Moves(w, Idle)
    BY <1>4, <2>1, IdleMoves DEF StartUnknownCode, IInv
  <2>3. Orderly(Idle)' /\ Knows(Idle) = {0} /\ Idle.uid = 0
    BY DEF Orderly, Knows, Holds, IdsOf, Idle
  <2> QED BY <1>4, <2>2, <2>3, QuietStep DEF StartUnknownCode, Idle
<1> QED BY <1>1, <1>2, <1>3, <1>4

LEMMA StartCommitInv ==
  ASSUME IInv, TInv', NEW w \in Workers, StartCommit(w)
  PROVE  IInv'
<1> USE DEF IInv
<1>0. /\ job[w] \in JobType /\ job[w].created \in BOOLEAN /\ account \in [Users -> Ids]
      /\ Opening(w) /\ job[w].user \in Users
  BY Worker DEF TInv, TypeOK, JobType, StartCommit, Opening, On
<1>a. Moves(w, Idle)
  BY EndsQuietly DEF StartCommit
<1>b. job'[w] = Idle /\ \A v \in Workers \ {w} : job'[v] = job[v]
  BY <1>a, Jobs
<1>c. Orderly(Idle)' /\ Knows(Idle) = {0} /\ Idle.uid = 0
  BY DEF Orderly, Knows, Holds, IdsOf, Idle
<1>1. CASE ~job[w].created
  <2>1. account' = account /\ referrals' = referrals /\ levels' = levels
    BY <1>0, <1>1 DEF StartCommit, OpenSignups
  <2> QED BY <1>a, <1>c, <2>1, QuietStep DEF Idle
<1>2. CASE job[w].created
  <2>0. PICK uid, u : uid = job[w].uid /\ u = job[w].user
    OBVIOUS
  <2>1. /\ account' = [account EXCEPT ![u] = uid]
        /\ uid # 0 /\ ~Exists(uid) /\ \A r \in referrals : r.invited # uid
        /\ account[u] = 0 /\ levels' = levels
    BY <1>0, <1>2, <2>0 DEF StartCommit, OpenSignups
  <2>2. \A v \in Workers \ {w} :
          /\ job[v].uid # uid
          /\ job[w].ref # 0 => job[w].ref \notin Knows(job[v])
          /\ Opening(v) /\ job[v].created => job[v].user # u
    BY <1>0, <1>2, <2>0 DEF OpenSignups
  <2>3. \/ referrals' = referrals
        \/ /\ referrals' = referrals \cup {NewReferral(w)}
           /\ job[w].ref # 0 /\ job[w].inviter \notin {0, uid}
           /\ \A r \in referrals \cup levels : r.id # job[w].ref
    BY <1>0, <2>0 DEF StartCommit, OpenSignups
  <2>4. /\ NewReferral(w).id = job[w].ref /\ NewReferral(w).invited = uid
        /\ NewReferral(w).inviter = job[w].inviter
    BY <2>0 DEF NewReferral
  <2>5. \A v \in Workers : Opening(v)' => v # w /\ Opening(v)
    BY <1>b DEF Opening, On, Idle
  <2>6. \A id : Exists(id) => id = 0 \/ Exists(id)'
    BY <1>0, <2>1 DEF Exists
  <2>7. Exists(uid)'
    <3>1. u \in Users
      BY <1>0, <2>0
    <3> QED BY <1>0, <2>1, <3>1 DEF Exists
  <2>8. \A id : Exists(id)' => id = uid \/ Exists(id)
    BY <1>0, <2>1 DEF Exists
  <2>9. UniqueAccounts'
    BY <1>0, <2>1 DEF UniqueAccounts, Exists
  <2>10. UniqueIds' /\ ReferralRows' /\ OneReferralPerInvited'
    BY <2>1, <2>3, <2>4 DEF UniqueIds, ReferralRows, OneReferralPerInvited
  <2>11. InvitedIsMember'
    <3> SUFFICES ASSUME NEW r \in referrals' PROVE \E x \in Users : account'[x] = r.invited
      BY DEF InvitedIsMember, Exists
    <3>1. r \in referrals \/ r.invited = uid
      BY <2>3, <2>4
    <3>2. CASE r \in referrals
      <4>1. r.invited # 0 /\ Exists(r.invited)
        BY <3>2 DEF InvitedIsMember, ReferralRows
      <4> QED BY <2>6, <4>1 DEF Exists
    <3> QED BY <2>7, <3>1, <3>2 DEF Exists
  <2>12. OrderlyJobs'
    <3>1. ASSUME NEW v \in Workers \ {w} PROVE Orderly(job[v])'
      <4>1. Orderly(job[v])
        BY DEF OrderlyJobs
      <4>2. job[v].uid # uid /\ (job[w].ref # 0 => job[w].ref \notin Knows(job[v]))
        BY <2>2
      <4>3. /\ job[w].ref # 0 => job[w].ref \notin Holds(job[v])
            /\ job[w].ref # 0 => \A m \in job[v].made : m.id # job[w].ref
        BY <4>2 DEF Knows, IdsOf
      <4>4. \A r \in referrals' : \/ r \in referrals
                                  \/ /\ r.id \notin Holds(job[v]) /\ r.invited # job[v].uid
                                     /\ \A m \in job[v].made : m.id # r.id
        BY <2>3, <2>4, <4>2, <4>3
      <4> QED BY <1>b, <4>1, <4>4 DEF Orderly
    <3> QED BY <1>b, <1>c, <3>1 DEF OrderlyJobs
  <2>13. OpenSignups'
    <3>1. ASSUME NEW v \in Workers, Opening(v)'
          PROVE  /\ v # w /\ Opening(v) /\ job'[v] = job[v]
                 /\ job[v].created \/ job[v].ref = 0
                 /\ job[v].created =>
                      /\ job[v].uid # 0
                      /\ ~Exists(job[v].uid)'
                      /\ account'[job[v].user] = 0
                      /\ \A r \in referrals' : r.invited # job[v].uid
                 /\ job[v].ref # 0 =>
                      /\ job[v].inviter \notin {0, job[v].uid}
                      /\ \A r \in referrals' \cup levels' : r.id # job[v].ref
      <4>1. v # w /\ Opening(v) /\ job'[v] = job[v]
        BY <1>b, <2>5, <3>1
      <4>2. job[v].created => account'[job[v].user] = 0
        BY <1>0, <2>1, <2>2, <4>1 DEF OpenSignups
      <4>3. job[v].created => ~Exists(job[v].uid)'
        BY <2>2, <2>8, <4>1 DEF OpenSignups
      <4>4. job[w].ref # 0 => job[w].ref # job[v].ref
        BY <2>2, <4>1 DEF Knows
      <4>5. /\ job[v].created => \A r \in referrals' : r.invited # job[v].uid
            /\ job[v].ref # 0 => \A r \in referrals' \cup levels' : r.id # job[v].ref
        BY <2>1, <2>2, <2>3, <2>4, <4>1, <4>4 DEF OpenSignups
      <4> QED BY <4>1, <4>2, <4>3, <4>5 DEF OpenSignups
    <3>2. ASSUME NEW x \in Workers, NEW v \in Workers, v # x, Opening(x)'
          PROVE  /\ job[x].created => job'[v].uid # job[x].uid
                 /\ job[x].ref # 0 => job[x].ref \notin Knows(job'[v])
                 /\ job[x].created /\ Opening(v)' /\ job'[v].created =>
                      job'[v].user # job[x].user
      <4>1. x # w /\ Opening(x) /\ job'[x] = job[x]
        BY <3>1, <3>2
      <4>2. CASE v = w
        BY <1>b, <1>c, <2>5, <4>1, <4>2 DEF OpenSignups
      <4>3. CASE v # w
        BY <1>b, <2>5, <3>2, <4>1, <4>3 DEF OpenSignups
      <4> QED BY <4>2, <4>3
    <3> QED BY <3>1, <3>2 DEF OpenSignups
  <2> QED BY <2>9, <2>10, <2>11, <2>12, <2>13
<1> QED BY <1>0, <1>1, <1>2

\* What the transaction of a deletion has taken is all there is about its user as
\* the invited one, and nothing about others.
LEMMA EraseInv ==
  ASSUME IInv, TInv', NEW w \in Workers, EraseCommit(w)
  PROVE  IInv'
<1> USE DEF IInv
<1> DEFINE uid == job[w].uid
<1>0. account \in [Users -> Ids] /\ Orderly(job[w])
  BY DEF TInv, TypeOK, OrderlyJobs
<1>a. Moves(w, Idle)
  BY EndsQuietly DEF EraseCommit
<1>b. job'[w] = Idle /\ \A v \in Workers \ {w} : job'[v] = job[v]
  BY <1>a, Jobs
<1>c. Orderly(Idle)' /\ Knows(Idle) = {0} /\ Idle.uid = 0
  BY DEF Orderly, Knows, Holds, IdsOf, Idle
<1>1. /\ account' = [u \in Users |-> IF account[u] = uid THEN 0 ELSE account[u]]
      /\ referrals' = Without(referrals, job[w].took)
      /\ referrals' \subseteq referrals /\ levels' \subseteq levels
  BY DEF EraseCommit, Without
<1>2. \A v \in Workers : Opening(v)' => v # w /\ Opening(v) /\ job'[v] = job[v]
  BY <1>b DEF Opening, On, Idle
<1>d. \A r \in referrals' : r.invited # uid
  BY <1>0, <1>1 DEF EraseCommit, On, Orderly, Holds, Without
<1> HIDE DEF uid
<1>3. \A id : Exists(id) => Exists(id)' \/ id = uid
  BY <1>1 DEF Exists
<1>4. \A id : Exists(id)' => Exists(id) \/ id = 0
  BY <1>1 DEF Exists
<1>5. UniqueAccounts'
  BY <1>1 DEF UniqueAccounts
<1>6. UniqueIds' /\ ReferralRows' /\ OneReferralPerInvited'
  BY <1>1 DEF UniqueIds, ReferralRows, OneReferralPerInvited
<1>7. InvitedIsMember'
  BY <1>1, <1>3, <1>d DEF InvitedIsMember
<1>8. OrderlyJobs'
  <2>1. ASSUME NEW v \in Workers \ {w} PROVE Orderly(job[v])'
    <3>1. Orderly(job[v])
      BY DEF OrderlyJobs
    <3> QED BY <1>1, <1>b, <3>1 DEF Orderly
  <2> QED BY <1>b, <1>c, <2>1 DEF OrderlyJobs
<1>9. OpenSignups'
  <2>1. \A v \in Workers : Opening(v)' /\ job'[v].created =>
          ~Exists(job[v].uid)' /\ account'[job[v].user] = 0
    <3> SUFFICES ASSUME NEW v \in Workers, Opening(v)', job'[v].created
                 PROVE  ~Exists(job[v].uid)' /\ account'[job[v].user] = 0
      OBVIOUS
    <3>1. job'[v] = job[v] /\ Opening(v) /\ job[v].created
      BY <1>2
    <3>2. job[v].uid # 0 /\ ~Exists(job[v].uid) /\ account[job[v].user] = 0
      BY <3>1 DEF OpenSignups
    <3>3. job[v].user \in Users
      BY <3>1, Worker DEF Opening, On
    <3> QED BY <1>1, <1>4, <3>1, <3>2, <3>3
  <2>2. \A v, x \in Workers : v # x /\ Opening(x)' =>
          /\ job[x].created => job'[v].uid # job[x].uid
          /\ job[x].ref # 0 => job[x].ref \notin Knows(job'[v])
    BY <1>2, <1>b, <1>c DEF OpenSignups
  <2> QED BY <1>1, <1>2, <2>1, <2>2 DEF OpenSignups
<1> QED BY <1>5, <1>6, <1>7, <1>8, <1>9

LEMMA SaveInv ==
  ASSUME IInv, TInv', NEW w \in Workers, SaveReward(w)
  PROVE  IInv'
<1> USE DEF IInv
<1>a. Moves(w, Idle)
  BY EndsQuietly DEF SaveReward
<1>b. job'[w] = Idle /\ \A v \in Workers \ {w} : job'[v] = job[v]
  BY <1>a, Jobs
<1>c. Orderly(Idle)' /\ Knows(Idle) = {0} /\ Idle.uid = 0
  BY DEF Orderly, Knows, Holds, IdsOf, Idle
<1>1. referrals' = {Saved(w, r) : r \in referrals} /\ account' = account /\ levels' = levels
  BY DEF SaveReward, Saved
<1>2. \A s \in referrals' : \E r \in referrals :
        s.id = r.id /\ s.inviter = r.inviter /\ s.invited = r.invited /\ s = Saved(w, r)
  BY <1>1, SavedRow
<1>3. \A id : Exists(id)' <=> Exists(id)
  BY <1>1 DEF Exists
<1>4. \A v \in Workers : Opening(v)' => v # w /\ Opening(v) /\ job'[v] = job[v]
  BY <1>b DEF Opening, On, Idle
<1>5. UniqueIds' /\ OneReferralPerInvited'
  <2>1. \A r, s \in referrals' : r.id = s.id \/ r.invited = s.invited => r = s
    BY <1>2 DEF UniqueIds, OneReferralPerInvited
  <2> QED BY <1>1, <1>2, <2>1 DEF UniqueIds, OneReferralPerInvited
<1>6. UniqueAccounts' /\ ReferralRows' /\ InvitedIsMember'
  BY <1>1, <1>2, <1>3 DEF UniqueAccounts, ReferralRows, InvitedIsMember
<1>7. OrderlyJobs'
  <2>1. ASSUME NEW v \in Workers \ {w} PROVE Orderly(job[v])'
    <3>1. Orderly(job[v]) /\ job'[v] = job[v]
      BY <1>b DEF OrderlyJobs
    <3>2. \A r \in referrals : Saved(w, r) \in referrals' /\ Saved(w, r).id = r.id
      BY <1>1, SavedRow
    <3> QED BY <1>2, <3>1, <3>2 DEF Orderly
  <2> QED BY <1>b, <1>c, <2>1 DEF OrderlyJobs
<1>8. OpenSignups'
  <2>1. \A v \in Workers : Opening(v)' =>
          /\ job[v].created => /\ ~Exists(job[v].uid)'
                               /\ \A r \in referrals' : r.invited # job[v].uid
          /\ job[v].ref # 0 => \A r \in referrals' \cup levels' : r.id # job[v].ref
    BY <1>1, <1>2, <1>3, <1>4 DEF OpenSignups
  <2>2. \A v, x \in Workers : v # x /\ Opening(x)' =>
          /\ job[x].created => job'[v].uid # job[x].uid
          /\ job[x].ref # 0 => job[x].ref \notin Knows(job'[v])
    BY <1>4, <1>b, <1>c DEF OpenSignups
  <2> QED BY <1>1, <1>4, <2>1, <2>2 DEF OpenSignups
<1> QED BY <1>5, <1>6, <1>7, <1>8

\* A step that ends the handler, adds no row and leaves the accounts alone.
LEMMA QuietEnd ==
  ASSUME IInv, TInv', NEW w \in Workers, job' = [job EXCEPT ![w] = Idle],
         serial' = serial, account' = account, referrals' \subseteq referrals, levels' = levels
  PROVE  IInv'
<1>1. Moves(w, Idle)
  BY EndsQuietly DEF IInv
<1>2. Orderly(Idle)' /\ Knows(Idle) = {0} /\ Idle.uid = 0
  BY DEF Orderly, Knows, Holds, IdsOf, Idle
<1> QED BY <1>1, <1>2, QuietStep DEF Idle

LEMMA OtherInv ==
  ASSUME IInv, TInv', NEW w \in Workers, Receive(w) \/ BonusSave(w) \/ Fail(w)
  PROVE  IInv'
<1>1. CASE Receive(w)
  <2>1. PICK u, j :
           /\ u \in Updates
           /\ Moves(w, j)
           /\ j = [Idle EXCEPT !.pc = "begin", !.op = u.op, !.user = u.user,
                               !.code = u.code, !.pref = u.pref, !.uid = account[u.user]]
           /\ u.user \in Users
    BY <1>1, ReceiveMoves DEF IInv
  <2>2. /\ j.pc = "begin" /\ j.ref = 0 /\ ~j.created /\ j.uid = account[u.user]
        /\ j.left = {} /\ j.took = {} /\ j.made = {}
    BY <2>1 DEF Idle
  <2>3. UNCHANGED <<account, referrals, levels>>
    BY <1>1 DEF Receive
  <2>4. Holds(j) = {} /\ Knows(j) = {0}
    BY <2>2 DEF Holds, Knows, IdsOf
  <2>5. Orderly(j)'
    BY <2>2, <2>4 DEF Orderly
  <2>6. Exists(j.uid)
    BY <2>1, <2>2 DEF Exists
  <2>7. Moves(w, j)
    BY <2>1
  <2> QED BY <2>2, <2>3, <2>4, <2>5, <2>6, <2>7, QuietStep
<1>2. CASE BonusSave(w)
  BY <1>2, QuietEnd DEF BonusSave
<1>3. CASE Fail(w)
  BY <1>3, QuietEnd DEF Fail
<1> QED BY <1>1, <1>2, <1>3

\* Steps that write the job alone: what is left to say of the new one.
LEMMA JobOnly ==
  ASSUME IInv, TInv', NEW w \in Workers, NEW j, Moves(w, j),
         UNCHANGED <<account, referrals, levels>>,
         j.pc # "begin",
         ~(j.pc = "commit" /\ j.op = "start"),
         j.uid = job[w].uid,
         \/ Holds(j) = {}
         \/ /\ Holds(j) \subseteq Holds(job[w]) \cup IdsOf(levels)
            /\ j.op = job[w].op /\ j.ref = job[w].ref /\ j.pc # "reload",
         j.pc \in {"levels", "referrals"} => j.op \in {"delete", "disconnect"},
         j.pc = "referrals" /\ j.op = "delete" =>
           \A r \in referrals : r.invited = j.uid => r.id \in Holds(j),
         j.ref = job[w].ref \/ j.ref \in IdsOf(referrals),
         j.made = job[w].made
  PROVE  IInv'
<1>1. Orderly(job[w]) /\ UniqueIds
  BY DEF IInv, OrderlyJobs
<1>2. \A r \in referrals : r.id \notin IdsOf(levels)
  BY <1>1 DEF UniqueIds, IdsOf
<1>3. Orderly(j)'
  BY <1>1, <1>2 DEF Orderly
<1>4. Knows(j) \subseteq Knows(job[w]) \cup {0, serial} \cup IdsOf(levels) \cup IdsOf(referrals)
  BY DEF Knows
<1> QED BY <1>3, <1>4, QuietStep

LEMMA RowsInv ==
  ASSUME IInv, TInv', NEW w \in Workers, DeleteRows(w) \/ BeginErase(w)
  PROVE  IInv'
<1>0. job[w] \in JobType /\ Orderly(job[w]) /\ UniqueIds
  BY Worker DEF IInv, OrderlyJobs
<1>1. CASE TakeRow(w)
  <2> DEFINE rows == IdsOf(levels) \cup IdsOf(referrals)
  <2>1. PICK id, j :
           /\ id \in job[w].left
           /\ Moves(w, j)
           /\ j = [job[w] EXCEPT !.left = @ \ {id}, !.took = @ \cup ({id} \cap rows)]
    BY <1>1, TakeRowMoves DEF IInv
  <2>2. UNCHANGED <<account, referrals, levels>> /\ job[w].pc \in {"levels", "referrals"}
    BY <1>1 DEF TakeRow
  <2> HIDE DEF rows
  <2>3. /\ j.pc = job[w].pc /\ j.op = job[w].op /\ j.uid = job[w].uid /\ j.ref = job[w].ref
        /\ j.made = job[w].made /\ j.left = job[w].left \ {id}
        /\ j.took = job[w].took \cup ({id} \cap rows)
    BY <1>0, <2>1 DEF JobType
  <2>m. id \in job[w].left
    BY <2>1
  <2>4. Holds(j) \subseteq Holds(job[w])
    BY <2>3, <2>m DEF Holds
  <2>5. \A r \in referrals : r.id \in Holds(job[w]) => r.id \in Holds(j)
    BY <2>3 DEF Holds, rows, IdsOf
  <2>6. Moves(w, j)
    BY <2>1
  <2> QED BY <1>0, <2>2, <2>3, <2>4, <2>5, <2>6, QuietStep DEF Orderly, Knows
<1>2. CASE BeginReferrals(w)
  <2>1. PICK j : Moves(w, j) /\ j = [job[w] EXCEPT !.pc = "referrals", !.left = ToDelete(w)]
    BY <1>2, BeginReferralsMoves DEF IInv
  <2>2. UNCHANGED <<account, referrals, levels>> /\ job[w].pc = "levels"
    BY <1>2 DEF BeginReferrals
  <2>3. /\ j.pc = "referrals" /\ j.op = job[w].op /\ j.uid = job[w].uid /\ j.ref = job[w].ref
        /\ j.made = job[w].made /\ j.left = ToDelete(w) /\ j.took = job[w].took
    BY <1>0, <2>1 DEF JobType
  <2>4. job[w].op \in {"delete", "disconnect"}
    BY <1>0, <2>2 DEF Orderly
  <2>5. \A r \in referrals : r.id \in ToDelete(w) =>
          \/ job[w].op = "delete" /\ job[w].uid \in {r.inviter, r.invited}
          \/ job[w].op = "disconnect" /\ r.id = job[w].ref
    BY <1>0, <2>4 DEF ToDelete, IdsOf, UniqueIds
  <2>6. job[w].op = "delete" =>
          \A r \in referrals : r.invited = job[w].uid => r.id \in ToDelete(w)
    BY DEF ToDelete, IdsOf
  <2>7. ToDelete(w) \subseteq {job[w].ref} \cup IdsOf(referrals)
    BY DEF ToDelete, IdsOf
  <2>8. Orderly(j)'
    BY <1>0, <2>2, <2>3, <2>4, <2>5, <2>6 DEF Orderly, Holds
  <2>9. Moves(w, j)
    BY <2>1
  <2> QED BY <2>2, <2>3, <2>7, <2>8, <2>9, QuietStep DEF Knows, Holds
<1>3. CASE BeginErase(w)
  <2> DEFINE mine == IdsOf({l \in levels : l.owner = job[w].uid})
  <2>1. PICK j : Moves(w, j) /\ j = [job[w] EXCEPT !.pc = "levels", !.left = mine]
    BY <1>3, BeginEraseMoves DEF IInv
  <2>2. /\ UNCHANGED <<account, referrals, levels>> /\ job[w].pc = "begin"
        /\ job[w].op = "delete" /\ mine \subseteq IdsOf(levels)
    BY <1>3 DEF BeginErase, On, IdsOf
  <2> HIDE DEF mine
  <2>3. /\ j.pc = "levels" /\ j.op = job[w].op /\ j.uid = job[w].uid /\ j.ref = job[w].ref
        /\ j.made = job[w].made /\ j.left = mine /\ j.took = job[w].took
    BY <1>0, <2>1 DEF JobType
  <2>4. Holds(j) \subseteq Holds(job[w]) \cup IdsOf(levels)
    BY <2>2, <2>3 DEF Holds
  <2>5. Moves(w, j)
    BY <2>1
  <2> QED BY <2>2, <2>3, <2>4, <2>5, JobOnly
<1> QED BY <1>1, <1>2, <1>3 DEF DeleteRows

LEMMA ConnectionInv ==
  ASSUME IInv, TInv', NEW w \in Workers, SendReferral(w) \/ Reload(w) \/ DropReferral(w)
  PROVE  IInv'
<1>0. job[w] \in JobType /\ Orderly(job[w])
  BY Worker DEF IInv, OrderlyJobs
<1>1. CASE LoadFails(w) \/ DropReferral(w)
  BY <1>1, QuietEnd DEF LoadFails, DropReferral
<1>2. CASE Load(w)
  <2>1. PICK r, inviter, j :
           /\ r \in referrals /\ inviter \in Users
           /\ Moves(w, j)
           /\ j = [job[w] EXCEPT
                !.pc = IF pref[inviter] = "levels" THEN "select" ELSE "commit",
                !.ref = r.id, !.inviter = r.inviter]
    BY <1>2, LoadMoves DEF IInv
  <2>2. /\ UNCHANGED <<account, referrals, levels>>
        /\ job[w].op \in Connection /\ job[w].pc = "begin"
    BY <1>2 DEF Load
  <2>3. /\ j.pc \in {"select", "commit"} /\ j.op = job[w].op /\ j.uid = job[w].uid
        /\ j.ref = r.id /\ j.made = job[w].made
        /\ j.left = job[w].left /\ j.took = job[w].took
    BY <1>0, <2>1 DEF JobType
  <2>m. r \in referrals
    BY <2>1
  <2>4. Holds(j) = {} /\ j.ref \in IdsOf(referrals)
    BY <1>0, <2>2, <2>3, <2>m DEF Orderly, Holds, IdsOf
  <2>5. Moves(w, j)
    BY <2>1
  <2> QED BY <2>2, <2>3, <2>4, <2>5, JobOnly DEF Connection
<1>3. CASE SelectOnConnect(w)
  <2>1. PICK j : /\ Moves(w, j)
                 /\ \/ j = Idle
                    \/ j = [job[w] EXCEPT !.pc = "untracked",
                                          !.summary = Summary(job[w].inviter)]
    BY <1>3, SelectOnConnectMoves DEF IInv
  <2>2. UNCHANGED <<account, referrals, levels, serial>>
    BY <1>3 DEF SelectOnConnect
  <2>3. CASE j = Idle
    BY <2>1, <2>2, <2>3, QuietEnd DEF Moves
  <2>4. CASE j # Idle
    <3>1. /\ j.pc = "untracked" /\ j.op = job[w].op /\ j.uid = job[w].uid
          /\ j.ref = job[w].ref /\ j.made = job[w].made
          /\ j.left = job[w].left /\ j.took = job[w].took
      BY <1>0, <2>1, <2>4 DEF JobType
    <3>2. Holds(j) = Holds(job[w])
      BY <3>1 DEF Holds
    <3>3. Moves(w, j)
      BY <2>1
    <3> QED BY <2>2, <3>1, <3>2, <3>3, JobOnly
  <2> QED BY <2>3, <2>4
<1>4. CASE SelectOnDisconnect(w)
  <2>1. PICK j : /\ Moves(w, j)
                 /\ \/ j = [job[w] EXCEPT !.pc = "commit"]
                    \/ \E l \in levels :
                         j = [job[w] EXCEPT !.pc = "levels",
                                !.summary = Summary(job[w].inviter), !.left = {l.id}]
    BY <1>4, SelectOnDisconnectMoves DEF IInv
  <2>2. UNCHANGED <<account, referrals, levels>> /\ job[w].op = "disconnect"
    BY <1>4 DEF SelectOnDisconnect, On
  <2>3. /\ j.pc \in {"commit", "levels"} /\ j.op = job[w].op /\ j.uid = job[w].uid
        /\ j.ref = job[w].ref /\ j.made = job[w].made
        /\ j.took = job[w].took /\ (j.left = job[w].left \/ \E l \in levels : j.left = {l.id})
    BY <1>0, <2>1 DEF JobType
  <2>4. Holds(j) \subseteq Holds(job[w]) \cup IdsOf(levels)
    BY <2>3 DEF Holds, IdsOf
  <2>5. Moves(w, j)
    BY <2>1
  <2> QED BY <2>2, <2>3, <2>4, <2>5, JobOnly
<1>5. CASE GetUntracked(w)
  <2>1. PICK ids, j :
          Moves(w, j) /\ j = [job[w] EXCEPT !.pc = "recount", !.untracked = ids]
    BY <1>5, GetUntrackedMoves DEF IInv
  <2>2. UNCHANGED <<account, referrals, levels>>
    BY <1>5 DEF GetUntracked
  <2>3. /\ j.pc = "recount" /\ j.op = job[w].op /\ j.uid = job[w].uid
        /\ j.ref = job[w].ref /\ j.made = job[w].made
        /\ j.left = job[w].left /\ j.took = job[w].took
    BY <1>0, <2>1 DEF JobType
  <2>4. Holds(j) = Holds(job[w])
    BY <2>3 DEF Holds
  <2>5. Moves(w, j)
    BY <2>1
  <2> QED BY <2>2, <2>3, <2>4, <2>5, JobOnly
<1>6. CASE AddLevel(w)
  <2>1. PICK group, j :
           /\ group \in SUBSET job[w].untracked
           /\ Moves(w, j)
           /\ j = [job[w] EXCEPT
                !.untracked = @ \ group,
                !.made = @ \cup {[id |-> serial, owner |-> job[w].inviter, linked |-> group]}]
    BY <1>6, AddLevelMoves DEF IInv
  <2> DEFINE row == [id |-> serial, owner |-> job[w].inviter, linked |-> group]
  <2>2. UNCHANGED <<account, referrals, levels>> /\ job[w].pc = "recount" /\ row.id = serial
    BY <1>6 DEF AddLevel
  <2> HIDE DEF row
  <2>3. /\ j.pc = "recount" /\ j.op = job[w].op /\ j.uid = job[w].uid
        /\ j.ref = job[w].ref /\ j.made = job[w].made \cup {row}
        /\ j.left = job[w].left /\ j.took = job[w].took
    BY <1>0, <2>1, <2>2 DEF JobType, row
  <2>4. Holds(j) = Holds(job[w]) /\ IdsOf(j.made) = IdsOf(job[w].made) \cup {serial}
    BY <2>2, <2>3 DEF Holds, IdsOf
  <2>5. \A r \in referrals : r.id # serial
    BY Fresh DEF IInv, TInv, TypeOK, ReferralType, Ids
  <2>6. Orderly(j)'
    BY <1>0, <2>2, <2>3, <2>4, <2>5 DEF Orderly
  <2>7. Moves(w, j)
    BY <2>1
  <2> QED BY <2>2, <2>3, <2>4, <2>6, <2>7, QuietStep DEF Knows
<1>7. CASE Commit(w)
  <2>1. PICK j : /\ Moves(w, j)
                 /\ \/ j = Idle
                    \/ j = [Idle EXCEPT !.pc = "reload", !.op = job[w].op,
                                        !.user = job[w].user, !.uid = job[w].uid]
    BY <1>7, CommitMoves DEF IInv
  <2>2. /\ account' = account /\ referrals' \subseteq referrals
        /\ levels' \subseteq levels \cup job[w].made
    BY <1>7 DEF Commit, Without
  <2>3. /\ j.pc \in {"idle", "reload"} /\ j.uid \in {0, job[w].uid} /\ j.ref = 0
        /\ j.left = {} /\ j.took = {} /\ j.made = {}
    <3>1. CASE j = Idle
      BY <3>1 DEF Idle
    <3>2. CASE j = [Idle EXCEPT !.pc = "reload", !.op = job[w].op,
                                !.user = job[w].user, !.uid = job[w].uid]
      BY <3>2 DEF Idle
    <3> QED BY <2>1, <3>1, <3>2
  <2>4. Holds(j) = {} /\ Knows(j) = {0}
    BY <2>3 DEF Holds, Knows, IdsOf
  <2>5. Orderly(j)'
    BY <2>3, <2>4 DEF Orderly
  <2>6. Moves(w, j)
    BY <2>1
  <2> QED BY <2>2, <2>3, <2>4, <2>5, <2>6, QuietStep
<1>8. CASE Reload(w)
  <2>0. PICK r \in referrals, inviter \in Users : \E j :
           /\ Moves(w, j)
           /\ j = [job[w] EXCEPT !.pc = "save", !.ref = r.id, !.pref = pref[inviter],
                                 !.paid = r.money \/ pref[inviter] = "money"]
    BY <1>8, ReloadMoves DEF IInv
  <2>1. PICK j :
           /\ Moves(w, j)
           /\ j = [job[w] EXCEPT !.pc = "save", !.ref = r.id, !.pref = pref[inviter],
                                 !.paid = r.money \/ pref[inviter] = "money"]
    BY <2>0
  <2>2. UNCHANGED <<account, referrals, levels>> /\ job[w].pc = "reload"
    BY <1>8 DEF Reload
  <2>3. /\ j.pc = "save" /\ j.op = job[w].op /\ j.uid = job[w].uid
        /\ j.ref = r.id /\ j.made = job[w].made
        /\ j.left = job[w].left /\ j.took = job[w].took
    BY <1>0, <2>1 DEF JobType
  <2>4. Holds(j) = {} /\ j.ref \in IdsOf(referrals)
    BY <1>0, <2>2, <2>3 DEF Orderly, Holds, IdsOf
  <2>5. Moves(w, j)
    BY <2>1
  <2> QED BY <2>2, <2>3, <2>4, <2>5, JobOnly
<1> QED BY <1>1, <1>2, <1>3, <1>4, <1>5, <1>6, <1>7, <1>8 DEF SendReferral

LEMMA NextInv ==
  ASSUME IInv, [Next]_vars
  PROVE  IInv'
<1>1. TInv'
  BY NextType DEF IInv
<1>2. ASSUME NEW w \in Workers, Receive(w) \/ Step(w) \/ Fail(w) PROVE IInv'
  <2>1. CASE Receive(w) \/ Fail(w) \/ BonusSave(w)
    BY <1>1, <2>1, OtherInv
  <2>2. CASE Start(w)
    BY <1>1, <2>2, StartInv, StartCommitInv DEF Start
  <2>3. CASE DeleteRows(w) \/ Erase(w)
    BY <1>1, <2>3, RowsInv, EraseInv DEF Erase
  <2>4. CASE SendReferral(w) \/ UpdateReferral(w)
    BY <1>1, <2>4, ConnectionInv, SaveInv DEF UpdateReferral
  <2> QED BY <1>2, <2>1, <2>2, <2>3, <2>4 DEF Step
<1>3. CASE UNCHANGED <<account, referrals, levels, job>>
  BY <1>1, <1>3
     DEF IInv, UniqueAccounts, UniqueIds, ReferralRows, OrderlyJobs, Orderly, OpenSignups,
         InvitedIsMember, OneReferralPerInvited, Opening, On, Exists
<1> QED BY <1>2, <1>3 DEF Next, Expire, vars

LEMMA Invariant == Spec => []IInv
<1>1. Init => IInv
  BY InitInv
<1>2. IInv /\ [Next]_vars => IInv'
  BY NextInv
<1> QED BY <1>1, <1>2, PTL DEF Spec

\* However many workers handle a person's updates at once, at most one referral
\* about him is ever in the table (messages.go:201-240).
THEOREM OneReferral == Spec => []OneReferralPerInvited
BY Invariant, PTL DEF IInv

\* A referral never outlives the account of the person invited, though nothing
\* in the schema ties them (deleteData.go:178-187).
THEOREM InvitedSurvives == Spec => []InvitedIsMember
BY Invariant, PTL DEF IInv

-----------------------------------------------------------------------------
(* ReferralProgram implements InvitationLifecycle.                         *)

\* What the abstract variables are, read off the rows, now and after a step.
ReadOff ==
  /\ \A r \in referrals : r.invited \in AccountIds =>
        SponsorOf[r.invited] = r.inviter /\ RewardFor[r.invited] = r.kind
  /\ \A a \in AccountIds : (\A r \in referrals : r.invited # a) =>
        SponsorOf[a] = 0 /\ RewardFor[a] = "none"
  /\ SponsorOf = [a \in AccountIds |-> SponsorOf[a]]
  /\ RewardFor = [a \in AccountIds |-> RewardFor[a]]

LEMMA Abstraction == OneReferralPerInvited => ReadOff
<1> SUFFICES ASSUME OneReferralPerInvited PROVE ReadOff
  OBVIOUS
<1>1. ASSUME NEW r \in referrals, r.invited \in AccountIds
      PROVE  SponsorOf[r.invited] = r.inviter /\ RewardFor[r.invited] = r.kind
  <2>1. ReferralAbout(r.invited) = r
    BY DEF ReferralAbout, OneReferralPerInvited
  <2>2. Sponsored(r.invited)
    BY DEF Sponsored
  <2> QED BY <1>1, <2>1, <2>2 DEF SponsorOf, RewardFor
<1>2. ASSUME NEW a \in AccountIds, \A r \in referrals : r.invited # a
      PROVE  SponsorOf[a] = 0 /\ RewardFor[a] = "none"
  BY <1>2 DEF SponsorOf, RewardFor, Sponsored
<1>3. /\ SponsorOf = [a \in AccountIds |-> SponsorOf[a]]
      /\ RewardFor = [a \in AccountIds |-> RewardFor[a]]
  BY DEF SponsorOf, RewardFor
<1> QED BY <1>1, <1>2, <1>3 DEF ReadOff

LEMMA AbstractionNext == OneReferralPerInvited' => ReadOff'
BY Abstraction, PTL

LEMMA SameRows ==
  ASSUME UNCHANGED <<account, referrals>>
  PROVE  UNCHANGED Lifecycle!lifecycle
BY DEF Lifecycle!lifecycle, Members, SponsorOf, RewardFor, Sponsored, ReferralAbout

LEMMA SignupMaps ==
  ASSUME AccountIds = Nat \ {0}, IInv, IInv', NEW w \in Workers, StartCommit(w)
  PROVE  [Lifecycle!Next]_(Lifecycle!lifecycle)
<1>0. /\ job[w] \in JobType /\ Opening(w) /\ account \in [Users -> Ids]
      /\ Ids \subseteq Nat /\ referrals \subseteq ReferralType /\ ReadOff /\ ReadOff'
  BY Abstraction, AbstractionNext
     DEF IInv, TInv, TypeOK, StartCommit, Opening, Ids
<1>1. CASE ~job[w].created
  <2>1. UNCHANGED <<account, referrals>>
    BY <1>0, <1>1 DEF StartCommit, IInv, OpenSignups
  <2> QED BY <2>1, SameRows
<1>2. CASE job[w].created
  <2> DEFINE u == job[w].user
             s == IF job[w].ref = 0 THEN 0 ELSE job[w].inviter
  <2> SUFFICES ASSUME NEW uid, uid = job[w].uid PROVE Lifecycle!Join(uid, s) /\ uid \in AccountIds
                                       /\ s \in AccountIds \cup {0}
    BY DEF Lifecycle!Next
  <2>1. uid \in AccountIds /\ s \in AccountIds \cup {0} /\ s # uid
    BY <1>0, <1>2 DEF JobType, IInv, OpenSignups
  <2>2. /\ account' = [account EXCEPT ![u] = uid] /\ account[u] = 0 /\ u \in Users
        /\ ~Exists(uid) /\ \A r \in referrals : r.invited # uid
    BY <1>0, <1>2 DEF StartCommit, IInv, OpenSignups, Opening, On, TInv, Idle
  <2>3. /\ referrals' = referrals \cup IF job[w].ref = 0 THEN {} ELSE {NewReferral(w)}
        /\ NewReferral(w).invited = uid /\ NewReferral(w).inviter = job[w].inviter
        /\ NewReferral(w).kind = "pending"
        /\ job[w].ref # 0 => job[w].inviter # 0
    BY <1>0 DEF StartCommit, NewReferral, IInv, OpenSignups
  <2>4. uid \notin Members /\ SponsorOf[uid] = 0 /\ RewardFor[uid] = "none"
    BY <1>0, <2>1, <2>2 DEF Members, Exists, ReadOff
  <2>5. \A a \in AccountIds : a # uid =>
          SponsorOf'[a] = SponsorOf[a] /\ RewardFor'[a] = RewardFor[a]
    <3> SUFFICES ASSUME NEW a \in AccountIds, a # uid
                 PROVE  SponsorOf'[a] = SponsorOf[a] /\ RewardFor'[a] = RewardFor[a]
      OBVIOUS
    <3>1. CASE \E r \in referrals : r.invited = a
      <4>1. PICK r \in referrals : r.invited = a
        BY <3>1
      <4>2. r \in referrals'
        BY <2>3
      <4> QED BY <1>0, <4>1, <4>2 DEF ReadOff
    <3>2. CASE \A r \in referrals : r.invited # a
      <4>1. \A r \in referrals' : r.invited # a
        BY <2>3, <3>2
      <4> QED BY <1>0, <3>2, <4>1 DEF ReadOff
    <3> QED BY <3>1, <3>2
  <2>6. SponsorOf'[uid] = s /\ RewardFor'[uid] = IF s = 0 THEN "none" ELSE "pending"
    <3>1. CASE job[w].ref = 0
      <4>1. \A r \in referrals' : r.invited # uid
        BY <2>2, <2>3, <3>1
      <4> QED BY <1>0, <2>1, <3>1, <4>1 DEF ReadOff
    <3>2. CASE job[w].ref # 0
      <4>1. NewReferral(w) \in referrals'
        BY <2>3, <3>2
      <4>2. \A r \in referrals' : r.invited = uid => r.inviter = s /\ r.kind = "pending"
        BY <2>2, <2>3, <3>2
      <4>3. \E r \in referrals' : r.invited = uid
        BY <2>3, <4>1
      <4> QED BY <1>0, <2>1, <2>3, <3>2, <4>2, <4>3 DEF ReadOff
    <3> QED BY <3>1, <3>2
  <2> HIDE DEF s
  <2>7. SponsorOf' = [SponsorOf EXCEPT ![uid] = s]
    BY <1>0, <2>1, <2>5, <2>6 DEF ReadOff
  <2>8. RewardFor' = [RewardFor EXCEPT ![uid] = IF s = 0 THEN "none" ELSE "pending"]
    BY <1>0, <2>1, <2>5, <2>6 DEF ReadOff
  <2>9. Members' = Members \cup {uid}
    BY <1>0, <2>1, <2>2 DEF Members
  <2> QED BY <2>1, <2>4, <2>7, <2>8, <2>9 DEF Lifecycle!Join
<1> QED BY <1>0, <1>1, <1>2 DEF JobType

LEMMA InitMaps ==
  ASSUME AccountIds = Nat \ {0}, Init
  PROVE  Lifecycle!Init
<1>1. Members \subseteq AccountIds
  BY AccountAssumption DEF Members, Init
<1>2. /\ SponsorOf = [a \in AccountIds |-> 0]
      /\ RewardFor = [a \in AccountIds |-> "none"]
  BY DEF SponsorOf, RewardFor, Sponsored, Init
<1> QED BY <1>1, <1>2 DEF Lifecycle!Init

\* The referral of one person disappears, or none does.
LEMMA DropMaps ==
  ASSUME AccountIds = Nat \ {0}, IInv, IInv', NEW id,
         account' = account,
         \/ referrals' = referrals
         \/ referrals' = {r \in referrals : r.id # id}
  PROVE  [Lifecycle!Next]_(Lifecycle!lifecycle)
<1>0. /\ ReadOff /\ ReadOff' /\ referrals \subseteq ReferralType /\ Ids \subseteq Nat
  BY Abstraction, AbstractionNext DEF IInv, TInv, TypeOK, Ids
<1>1. CASE referrals' = referrals
  BY <1>1, SameRows
<1>2. CASE referrals' # referrals
  <2>1. PICK r \in referrals : r.id = id
    BY <1>2
  <2>2. referrals' = referrals \ {r}
    BY <1>2, <2>1 DEF IInv, UniqueIds
  <2> DEFINE a == r.invited
  <2>3. a \in AccountIds /\ SponsorOf[a] # 0
    BY <1>0 DEF IInv, ReferralRows, ReferralType, ReadOff
  <2>4. \A s \in referrals' : s.invited # a
    BY <2>2 DEF IInv, OneReferralPerInvited
  <2>5. SponsorOf'[a] = 0 /\ RewardFor'[a] = "none"
    BY <1>0, <2>3, <2>4 DEF ReadOff
  <2>6. \A b \in AccountIds : b # a =>
          SponsorOf'[b] = SponsorOf[b] /\ RewardFor'[b] = RewardFor[b]
    <3> SUFFICES ASSUME NEW b \in AccountIds, b # a
                 PROVE  SponsorOf'[b] = SponsorOf[b] /\ RewardFor'[b] = RewardFor[b]
      OBVIOUS
    <3>1. CASE \E s \in referrals : s.invited = b
      <4>1. PICK s \in referrals : s.invited = b
        BY <3>1
      <4>2. s \in referrals'
        BY <2>2, <4>1
      <4> QED BY <1>0, <4>1, <4>2 DEF ReadOff
    <3>2. CASE \A s \in referrals : s.invited # b
      BY <1>0, <2>2, <3>2 DEF ReadOff
    <3> QED BY <3>1, <3>2
  <2> HIDE DEF a
  <2>7. /\ SponsorOf' = [SponsorOf EXCEPT ![a] = 0]
        /\ RewardFor' = [RewardFor EXCEPT ![a] = "none"]
    BY <1>0, <2>3, <2>5, <2>6 DEF ReadOff
  <2>8. Members' = Members
    BY DEF Members
  <2>9. Lifecycle!Withdraw(a)
    BY <2>3, <2>7, <2>8 DEF Lifecycle!Withdraw
  <2> QED BY <2>3, <2>9 DEF Lifecycle!Next
<1> QED BY <1>1, <1>2

LEMMA SaveMaps ==
  ASSUME AccountIds = Nat \ {0}, IInv, IInv', NEW w \in Workers, SaveReward(w)
  PROVE  [Lifecycle!Next]_(Lifecycle!lifecycle)
<1>0. /\ ReadOff /\ ReadOff' /\ referrals \subseteq ReferralType /\ Ids \subseteq Nat
  BY Abstraction, AbstractionNext DEF IInv, TInv, TypeOK, Ids
<1>a. job[w].pref \in Prefs /\ account' = account
  BY DEF IInv, TInv, TypeOK, JobType, SaveReward
<1>1. referrals' = {Saved(w, r) : r \in referrals}
  BY DEF SaveReward, Saved
<1>2. \A r \in referrals :
        /\ Saved(w, r).inviter = r.inviter /\ Saved(w, r).invited = r.invited
        /\ r.id = job[w].ref => Saved(w, r).kind = job[w].pref
        /\ r.id # job[w].ref => Saved(w, r).kind = r.kind
  BY SavedRow DEF IInv
<1>3. \A b \in AccountIds : SponsorOf'[b] = SponsorOf[b]
  <2> SUFFICES ASSUME NEW b \in AccountIds PROVE SponsorOf'[b] = SponsorOf[b]
    OBVIOUS
  <2>1. CASE \E s \in referrals : s.invited = b
    <3>1. PICK s \in referrals : s.invited = b
      BY <2>1
    <3>2. Saved(w, s) \in referrals' /\ Saved(w, s).invited = b /\ Saved(w, s).inviter = s.inviter
      BY <1>1, <1>2, <3>1
    <3> QED BY <1>0, <3>1, <3>2 DEF ReadOff
  <2>2. CASE \A s \in referrals : s.invited # b
    <3>1. \A s \in referrals' : s.invited # b
      BY <1>1, <1>2, <2>2
    <3> QED BY <1>0, <2>2, <3>1 DEF ReadOff
  <2> QED BY <2>1, <2>2
<1>4. ASSUME NEW b \in AccountIds,
             \A s \in referrals : s.invited = b => s.id # job[w].ref
      PROVE  RewardFor'[b] = RewardFor[b]
  <2>1. CASE \E s \in referrals : s.invited = b
    <3>1. PICK s \in referrals : s.invited = b
      BY <2>1
    <3>2. Saved(w, s) \in referrals' /\ Saved(w, s).invited = b /\ Saved(w, s).kind = s.kind
      BY <1>1, <1>2, <1>4, <3>1
    <3> QED BY <1>0, <3>1, <3>2 DEF ReadOff
  <2>2. CASE \A s \in referrals : s.invited # b
    <3>1. \A s \in referrals' : s.invited # b
      BY <1>1, <1>2, <2>2
    <3> QED BY <1>0, <2>2, <3>1 DEF ReadOff
  <2> QED BY <2>1, <2>2
<1>5. SponsorOf' = SponsorOf /\ Members' = Members
  BY <1>0, <1>3, <1>a DEF ReadOff, Members
<1>6. CASE \A r \in referrals : r.id # job[w].ref
  <2>1. RewardFor' = RewardFor
    BY <1>0, <1>4, <1>6 DEF ReadOff
  <2> QED BY <1>5, <2>1 DEF Lifecycle!lifecycle
<1>7. CASE \E r \in referrals : r.id = job[w].ref
  <2>1. PICK r \in referrals : r.id = job[w].ref
    BY <1>7
  <2> DEFINE a == r.invited
             k == job[w].pref
  <2>2. a \in AccountIds /\ SponsorOf[a] # 0 /\ a \in Members
    <3>1. a \in AccountIds /\ SponsorOf[a] # 0
      BY <1>0 DEF IInv, ReferralRows, ReferralType, ReadOff
    <3> QED BY <3>1 DEF IInv, InvitedIsMember, Exists, Members
  <2>3. RewardFor'[a] = k
    <3>1. Saved(w, r) \in referrals' /\ Saved(w, r).invited = a /\ Saved(w, r).kind = k
      BY <1>1, <1>2, <2>1
    <3> QED BY <1>0, <2>2, <3>1 DEF ReadOff
  <2>4. \A b \in AccountIds : b # a => RewardFor'[b] = RewardFor[b]
    <3>1. \A s \in referrals : s.id = job[w].ref => s.invited = a
      BY <2>1 DEF IInv, UniqueIds
    <3> HIDE DEF a
    <3> QED BY <3>1, <1>4
  <2> HIDE DEF a, k
  <2>5. RewardFor' = [RewardFor EXCEPT ![a] = k]
    BY <1>0, <2>2, <2>3, <2>4 DEF ReadOff
  <2>6. k \in Prefs
    BY <1>a DEF k
  <2>7. Lifecycle!FixReward(a, k)
    BY <1>5, <2>2, <2>5 DEF Lifecycle!FixReward
  <2> QED BY <2>2, <2>6, <2>7 DEF Lifecycle!Next
<1> QED BY <1>6, <1>7

\* The transaction of a deletion has all about its user as the invited one, and
\* nothing of others; what it has not of his own invitations stays.
LEMMA EraseMaps ==
  ASSUME AccountIds = Nat \ {0}, IInv, IInv', NEW w \in Workers, EraseCommit(w)
  PROVE  [Lifecycle!Next]_(Lifecycle!lifecycle)
<1>a. PICK uid, took : uid = job[w].uid /\ took = job[w].took
  OBVIOUS
<1>0. /\ ReadOff /\ ReadOff' /\ referrals \subseteq ReferralType /\ Ids \subseteq Nat
      /\ uid \in Ids /\ account \in [Users -> Ids]
  BY <1>a, Abstraction, AbstractionNext DEF IInv, TInv, TypeOK, Ids, JobType
<1>1. /\ account' = [u \in Users |-> IF account[u] = uid THEN 0 ELSE account[u]]
      /\ referrals' = {r \in referrals : r.id \notin took}
  BY <1>a DEF EraseCommit, Without
<1>2. \A r \in referrals : /\ r.id \in took => uid \in {r.inviter, r.invited}
                           /\ r.invited = uid => r.id \in took
  BY <1>a DEF IInv, OrderlyJobs, Orderly, Holds, EraseCommit, On
<1>3. CASE uid = 0
  <2>1. referrals' = referrals /\ account' = account
    BY <1>0, <1>1, <1>2, <1>3 DEF IInv, ReferralRows
  <2> QED BY <2>1, SameRows
<1>4. CASE uid # 0
  <2>1. uid \in AccountIds
    BY <1>0, <1>4
  <2> DEFINE stay == {b \in AccountIds \ {uid} : /\ SponsorOf[b] = uid
                                                 /\ \E r \in referrals' : r.invited = b}
             ends == {b \in AccountIds : b = uid \/ SponsorOf[b] = uid} \ stay
  <2>2. \A b \in ends : SponsorOf'[b] = 0 /\ RewardFor'[b] = "none"
    <3> SUFFICES ASSUME NEW b \in ends
                 PROVE  \A r \in referrals' : r.invited # b
      BY <1>0 DEF ReadOff
    <3> QED BY <1>1, <1>2
  <2>3. \A b \in AccountIds \ ends :
          SponsorOf'[b] = SponsorOf[b] /\ RewardFor'[b] = RewardFor[b]
    <3> SUFFICES ASSUME NEW b \in AccountIds, b # uid,
                        SponsorOf[b] # uid \/ \E r \in referrals' : r.invited = b
                 PROVE  SponsorOf'[b] = SponsorOf[b] /\ RewardFor'[b] = RewardFor[b]
      OBVIOUS
    <3>1. CASE \E s \in referrals : s.invited = b
      <4>1. PICK s \in referrals : s.invited = b
        BY <3>1
      <4>2. s.inviter = SponsorOf[b]
        BY <1>0, <4>1 DEF ReadOff
      <4>3. CASE SponsorOf[b] # uid
        <5>1. s \in referrals'
          BY <1>1, <1>2, <4>1, <4>2, <4>3
        <5> QED BY <1>0, <4>1, <5>1 DEF ReadOff
      <4>4. CASE \E r \in referrals' : r.invited = b
        <5>1. PICK r \in referrals' : r.invited = b
          BY <4>4
        <5>2. r = s
          BY <1>1, <4>1, <5>1 DEF IInv, OneReferralPerInvited
        <5> QED BY <1>0, <4>1, <5>1, <5>2 DEF ReadOff
      <4> QED BY <4>3, <4>4
    <3>2. CASE \A s \in referrals : s.invited # b
      BY <1>0, <1>1, <3>2 DEF ReadOff
    <3> QED BY <3>1, <3>2
  <2>4. Members' = Members \ {uid}
    BY <1>0, <1>1, <1>4 DEF Members
  <2>5. stay \in SUBSET {b \in AccountIds \ {uid} : SponsorOf[b] = uid}
    OBVIOUS
  <2> HIDE DEF stay
  <2>6. /\ SponsorOf' = [b \in AccountIds |-> IF b \in ends THEN 0 ELSE SponsorOf[b]]
        /\ RewardFor' = [b \in AccountIds |-> IF b \in ends THEN "none" ELSE RewardFor[b]]
    <3> HIDE DEF ends
    <3> QED BY <1>0, <2>2, <2>3 DEF ReadOff
  <2>7. Lifecycle!Leave(uid)
    BY <2>4, <2>5, <2>6 DEF Lifecycle!Leave
  <2> QED BY <2>1, <2>7 DEF Lifecycle!Next
<1> QED BY <1>3, <1>4

LEMMA StepMaps ==
  ASSUME AccountIds = Nat \ {0}, IInv, IInv', [Next]_vars
  PROVE  [Lifecycle!Next]_(Lifecycle!lifecycle)
<1>1. ASSUME NEW w \in Workers, Receive(w) \/ Step(w) \/ Fail(w)
      PROVE  [Lifecycle!Next]_(Lifecycle!lifecycle)
  <2>1. CASE StartCommit(w)
    BY <2>1, SignupMaps
  <2>2. CASE EraseCommit(w)
    BY <2>2, EraseMaps
  <2>3. CASE SaveReward(w)
    BY <2>3, SaveMaps
  <2>4. CASE Commit(w) \/ DropReferral(w)
    <3>1. /\ account' = account
          /\ \/ referrals' = referrals
             \/ referrals' = {r \in referrals : r.id # job[w].ref}
      <4>1. CASE Commit(w)
        <5>1. \A r \in referrals : r.id \in job[w].took => r.id = job[w].ref
          BY <4>1 DEF Commit, Connection, IInv, OrderlyJobs, Orderly, Holds
        <5> QED BY <4>1, <5>1 DEF Commit, Without
      <4>2. CASE DropReferral(w)
        BY <4>2 DEF DropReferral
      <4> QED BY <2>4, <4>1, <4>2
    <3> QED BY <3>1, DropMaps
  <2>5. CASE UNCHANGED <<account, referrals>>
    BY <2>5, SameRows
  <2> QED
    BY <1>1, <2>1, <2>2, <2>3, <2>4, <2>5
       DEF Step, Start, SendReferral, UpdateReferral, DeleteRows, Erase, Receive, Fail,
           BonusSave, StartKnown, StartNew, StartInvited, StartUnknownCode, TakeRow,
           BeginReferrals, BeginErase, LoadFails, Load, SelectOnConnect,
           SelectOnDisconnect, GetUntracked, AddLevel, Reload
<1>2. CASE Expire \/ UNCHANGED vars
  BY <1>2, SameRows DEF Expire, vars
<1> QED BY <1>1, <1>2 DEF Next

\* Every behaviour of the programme is one of InvitationLifecycle: a person gets
\* his inviter when he signs up or never, loses him for good, and takes his own
\* referral with him when he leaves, whatever other transactions do meanwhile.
THEOREM Refinement ==
  ASSUME AccountIds = Nat \ {0}
  PROVE  Spec => ImplementsLifecycle
<1>1. Init => Lifecycle!Init
  BY InitMaps
<1>2. IInv /\ IInv' /\ [Next]_vars => [Lifecycle!Next]_(Lifecycle!lifecycle)
  BY StepMaps
<1> QED BY <1>1, <1>2, Invariant, PTL DEF Spec, ImplementsLifecycle, Lifecycle!Spec
=============================================================================
