--------------------------- MODULE LockOrderProofs ---------------------------
(***************************************************************************)
(* Handlers of ReferralProgram never wait for each other in a circle, for  *)
(* any number of workers, users and rows.  All of them delete levels       *)
(* before referrals and take the rows of a table in its order, so of the   *)
(* handlers that wait for a row in the later table, the one that waits for *)
(* the greatest id would wait for a handler that waits for a greater one.  *)
(***************************************************************************)
EXTENDS ReferralProgramProofs, WellFoundedInduction

-----------------------------------------------------------------------------
(* A bounded set of natural numbers has a greatest element.                *)

LEMMA LeastExists ==
  ASSUME NEW T \in SUBSET Nat, T # {}
  PROVE  \E x \in T : \A y \in T : ~(y < x)
<1> DEFINE R == OpToRel(<, Nat)
<1>1. IsWellFoundedOn(R, Nat)
  BY NatLessThanWellFounded
<1>2. \A x, y \in Nat : y < x => <<y, x>> \in R
  BY DEF OpToRel
<1> HIDE DEF R
<1>3. \E x \in T : \A y \in T : ~(<<y, x>> \in R)
  BY <1>1, WFMin
<1> QED BY <1>2, <1>3

LEMMA GreatestExists ==
  ASSUME NEW n \in Nat, NEW T \in SUBSET (0 .. n), T # {}
  PROVE  \E x \in T : \A y \in T : y <= x
<1> DEFINE S == {m \in Nat : \E x \in T : m = n - x}
<1>1. ASSUME NEW x \in T PROVE x \in Nat /\ x <= n /\ n - x \in S
  OBVIOUS
<1>2. S \in SUBSET Nat /\ S # {}
  BY <1>1
<1> HIDE DEF S
<1>3. PICK s \in S : \A y \in S : ~(y < s)
  BY <1>2, LeastExists
<1>4. PICK x \in T : s = n - x
  BY DEF S
<1>5. ASSUME NEW y \in T PROVE y <= x
  <2>1. n - y \in S /\ ~(n - y < n - x)
    BY <1>1, <1>3, <1>4
  <2> QED BY <1>1, <2>1
<1> QED BY <1>5

-----------------------------------------------------------------------------
(* The order in which rows are taken, as an invariant.                     *)

\* The referrals a handler may have to wait for.
Wanted(x) == {x.ref} \cup IF x.pc = "referrals" THEN x.left ELSE {}

\* An id that was drawn, and that no referral has, had, or will have.
LevelId(a) ==
  /\ a \in Nat /\ 0 < a /\ a < serial
  /\ a \notin IdsOf(referrals)
  /\ \A w \in Workers : a \notin Wanted(job[w])

\* What has been taken comes before what is left to take.
InOrder(x) ==
  /\ x.took # {} => x.pc \in {"levels", "referrals", "recount"}
  /\ x.pc = "levels" =>
       /\ \A a \in Holds(x) : LevelId(a)
       /\ \A a \in x.took, b \in x.left : a < b
  /\ x.pc = "referrals" => \A a \in x.took, b \in x.left : a < b \/ LevelId(a)
  /\ \A m \in x.made : LevelId(m.id)

Ordered ==
  /\ \A l \in levels : LevelId(l.id)
  /\ \A w \in Workers : InOrder(job[w])

LEMMA InitOrdered == Init => Ordered
BY DEF Init, Ordered, InOrder, Idle

\* An id of a level is never taken for a referral's: referrals are found in the
\* table, or get an id of their own.
LEMMA StillLevel ==
  ASSUME TInv, NEW w \in Workers, NEW j, Moves(w, j),
         IdsOf(referrals') \subseteq IdsOf(referrals) \cup Wanted(job[w]),
         Wanted(j) \subseteq Wanted(job[w]) \cup IdsOf(referrals) \cup {0, serial, serial + 1}
  PROVE  \A a : LevelId(a) => LevelId(a)'
<1> SUFFICES ASSUME NEW a, LevelId(a) PROVE LevelId(a)'
  OBVIOUS
<1>0. serial \in Nat /\ serial' \in Nat /\ serial <= serial'
  BY Worker DEF Moves
<1>1. a \in Nat /\ 0 < a /\ a < serial' /\ a # 0 /\ a # serial /\ a # serial + 1
  BY <1>0 DEF LevelId
<1>2. job'[w] = j /\ \A v \in Workers \ {w} : job'[v] = job[v]
  BY Jobs
<1>3. a \notin IdsOf(referrals')
  BY DEF LevelId
<1>4. \A v \in Workers : a \notin Wanted(job'[v])
  BY <1>1, <1>2 DEF LevelId
<1> QED BY <1>1, <1>3, <1>4 DEF LevelId, IdsOf

LEMMA OrderStep ==
  ASSUME TInv, Ordered, NEW w \in Workers, NEW j, Moves(w, j),
         IdsOf(referrals') \subseteq IdsOf(referrals) \cup Wanted(job[w]),
         Wanted(j) \subseteq Wanted(job[w]) \cup IdsOf(referrals) \cup {0, serial, serial + 1},
         levels' \subseteq levels \cup job[w].made,
         (\A a : LevelId(a) => LevelId(a)') => InOrder(j)'
  PROVE  Ordered'
<1>1. \A a : LevelId(a) => LevelId(a)'
  BY StillLevel
<1>2. job'[w] = j /\ \A v \in Workers \ {w} : job'[v] = job[v]
  BY Jobs
<1>3. \A v \in Workers : InOrder(job[v])
  BY DEF Ordered
<1>4. \A l \in levels' : LevelId(l.id)
  BY <1>3 DEF Ordered, InOrder
<1>5. \A l \in levels' : LevelId(l.id)'
  BY <1>1, <1>4
<1>6. ASSUME NEW v \in Workers \ {w} PROVE InOrder(job[v])'
  <2>1. PICK x : x = job[v]
    OBVIOUS
  <2>2. InOrder(x) /\ job'[v] = x
    BY <1>2, <1>3, <2>1
  <2>3. InOrder(x)'
    BY <1>1, <2>2 DEF InOrder
  <2> QED BY <2>2, <2>3
<1>7. InOrder(j)'
  BY <1>1
<1> QED BY <1>2, <1>5, <1>6, <1>7 DEF Ordered

\* Steps that end the handler, or take it to where it has taken nothing.
LEMMA NothingTaken ==
  ASSUME TInv, Ordered, NEW w \in Workers, NEW j, Moves(w, j),
         IdsOf(referrals') \subseteq IdsOf(referrals) \cup Wanted(job[w]),
         levels' \subseteq levels \cup job[w].made,
         j.took = {}, j.made = {} \/ j.made = job[w].made,
         j.pc \notin {"levels", "referrals"},
         j.ref \in {0, job[w].ref, serial + 1} \cup IdsOf(referrals)
  PROVE  Ordered'
<1>1. Wanted(j) \subseteq Wanted(job[w]) \cup IdsOf(referrals) \cup {0, serial, serial + 1}
  BY DEF Wanted
<1>2. (\A a : LevelId(a) => LevelId(a)') => InOrder(j)'
  BY DEF InOrder, Ordered
<1> QED BY <1>1, <1>2, OrderStep

LEMMA EndOrdered ==
  ASSUME TInv, Ordered, NEW w \in Workers, job' = [job EXCEPT ![w] = Idle],
         serial' \in Nat, serial <= serial',
         IdsOf(referrals') \subseteq IdsOf(referrals) \cup Wanted(job[w]),
         levels' \subseteq levels \cup job[w].made
  PROVE  Ordered'
<1>1. Moves(w, Idle)
  BY IdleMoves
<1>2. Idle.took = {} /\ Idle.made = {} /\ Idle.pc = "idle" /\ Idle.ref = 0
  BY DEF Idle
<1> QED BY <1>1, <1>2, NothingTaken

LEMMA StartOrdered ==
  ASSUME TInv, Ordered, NEW w \in Workers, Start(w)
  PROVE  Ordered'
<1>0. job[w] \in JobType /\ InOrder(job[w])
  BY Worker DEF Ordered
<1>1. CASE StartKnown(w)
  <2>1. PICK j : Moves(w, j) /\ j = [job[w] EXCEPT !.pc = "commit", !.uid = account[job[w].user]]
    BY <1>1, StartKnownMoves
  <2>2. j.pc = "commit" /\ j.ref = job[w].ref /\ j.took = job[w].took /\ j.made = job[w].made
    BY <1>0, <2>1 DEF JobType
  <2>3. job[w].pc = "begin" /\ UNCHANGED <<referrals, levels>>
    BY <1>1 DEF StartKnown, On
  <2> QED BY <1>0, <2>1, <2>2, <2>3, NothingTaken DEF InOrder
<1>2. CASE StartNew(w)
  <2>1. PICK j : /\ Moves(w, j)
                 /\ j = [job[w] EXCEPT !.pc = "commit", !.uid = serial, !.created = TRUE]
    BY <1>2, StartNewMoves
  <2>2. j.pc = "commit" /\ j.ref = job[w].ref /\ j.took = job[w].took /\ j.made = job[w].made
    BY <1>0, <2>1 DEF JobType
  <2>3. job[w].pc = "begin" /\ UNCHANGED <<referrals, levels>>
    BY <1>2 DEF StartNew, On
  <2> QED BY <1>0, <2>1, <2>2, <2>3, NothingTaken DEF InOrder
<1>3. CASE StartInvited(w)
  <2>1. PICK owner, j :
          /\ Moves(w, j)
          /\ j = [job[w] EXCEPT !.pc = "commit", !.uid = serial, !.created = TRUE,
                                !.ref = serial + 1, !.inviter = account[owner]]
    BY <1>3, StartInvitedMoves
  <2>2. j.pc = "commit" /\ j.ref = serial + 1 /\ j.took = job[w].took /\ j.made = job[w].made
    BY <1>0, <2>1 DEF JobType
  <2>3. job[w].pc = "begin" /\ UNCHANGED <<referrals, levels>>
    BY <1>3 DEF StartInvited, On
  <2>4. Moves(w, j)
    BY <2>1
  <2> QED BY <1>0, <2>2, <2>3, <2>4, NothingTaken DEF InOrder
<1>4. CASE StartUnknownCode(w)
  <2>1. serial' \in Nat /\ serial <= serial'
    BY <1>4, Worker DEF StartUnknownCode
  <2> QED BY <1>4, <2>1, EndOrdered DEF StartUnknownCode
<1>5. CASE StartCommit(w)
  <2>1. IdsOf(referrals') \subseteq IdsOf(referrals) \cup Wanted(job[w])
    BY <1>5 DEF StartCommit, NewReferral, IdsOf, Wanted
  <2>2. serial' \in Nat /\ serial <= serial'
    BY <1>5, Worker DEF StartCommit
  <2> QED BY <1>5, <2>1, <2>2, EndOrdered DEF StartCommit
<1> QED BY <1>1, <1>2, <1>3, <1>4, <1>5 DEF Start

LEMMA RowsOrdered ==
  ASSUME TInv, Ordered, NEW w \in Workers, DeleteRows(w) \/ BeginErase(w)
  PROVE  Ordered'
<1>0. job[w] \in JobType /\ InOrder(job[w])
  BY Worker DEF Ordered
<1>1. CASE TakeRow(w)
  <2> DEFINE rows == IdsOf(levels) \cup IdsOf(referrals)
  <2>1. PICK id, j :
           /\ id \in job[w].left
           /\ Moves(w, j)
           /\ j = [job[w] EXCEPT !.left = @ \ {id}, !.took = @ \cup ({id} \cap rows)]
           /\ \A other \in job[w].left : id <= other
    BY <1>1, TakeRowMoves
  <2>2. UNCHANGED <<referrals, levels>> /\ job[w].pc \in {"levels", "referrals"}
    BY <1>1 DEF TakeRow
  <2> HIDE DEF rows
  <2>3. /\ j.pc = job[w].pc /\ j.ref = job[w].ref
        /\ j.made = job[w].made /\ j.left = job[w].left \ {id}
        /\ j.took = job[w].took \cup ({id} \cap rows)
    BY <1>0, <2>1 DEF JobType
  <2>4. Moves(w, j) /\ id \in job[w].left
    BY <2>1
  <2>5. \A other \in job[w].left \ {id} : id < other
    <3>1. \A other \in job[w].left : id <= other /\ other \in Int
      BY <1>0, <2>1, Worker DEF JobType, Ids
    <3> QED BY <2>4, <3>1
  <2>6. Wanted(j) \subseteq Wanted(job[w])
    BY <2>3 DEF Wanted
  <2>7. Holds(j) \subseteq Holds(job[w])
    BY <2>3, <2>4 DEF Holds
  <2>8. (\A a : LevelId(a) => LevelId(a)') => InOrder(j)'
    <3> SUFFICES ASSUME \A a : LevelId(a) => LevelId(a)' PROVE InOrder(j)'
      OBVIOUS
    <3>1. \A a \in j.took, b \in j.left : a = id \/ a \in job[w].took
      BY <2>3
    <3> QED BY <1>0, <2>2, <2>3, <2>5, <2>7, <3>1 DEF InOrder
  <2> QED BY <2>2, <2>4, <2>6, <2>8, OrderStep
<1>2. CASE BeginReferrals(w)
  <2>1. PICK j : Moves(w, j) /\ j = [job[w] EXCEPT !.pc = "referrals", !.left = ToDelete(w)]
    BY <1>2, BeginReferralsMoves
  <2>2. UNCHANGED <<referrals, levels>> /\ job[w].pc = "levels"
    BY <1>2 DEF BeginReferrals
  <2>3. /\ j.pc = "referrals" /\ j.ref = job[w].ref
        /\ j.made = job[w].made /\ j.left = ToDelete(w) /\ j.took = job[w].took
    BY <1>0, <2>1 DEF JobType
  <2>4. Wanted(j) \subseteq Wanted(job[w]) \cup IdsOf(referrals)
    BY <2>3 DEF Wanted, ToDelete, IdsOf
  <2>5. (\A a : LevelId(a) => LevelId(a)') => InOrder(j)'
    BY <1>0, <2>2, <2>3 DEF InOrder, Holds
  <2>6. Moves(w, j)
    BY <2>1
  <2> QED BY <2>2, <2>4, <2>5, <2>6, OrderStep
<1>3. CASE BeginErase(w)
  <2> DEFINE mine == IdsOf({l \in levels : l.owner = job[w].uid})
  <2>1. PICK j : Moves(w, j) /\ j = [job[w] EXCEPT !.pc = "levels", !.left = mine]
    BY <1>3, BeginEraseMoves
  <2>2. /\ UNCHANGED <<referrals, levels>> /\ job[w].pc = "begin"
        /\ \A a \in mine : LevelId(a)
    BY <1>3 DEF BeginErase, On, IdsOf, Ordered
  <2> HIDE DEF mine
  <2>3. /\ j.pc = "levels" /\ j.ref = job[w].ref
        /\ j.made = job[w].made /\ j.left = mine /\ j.took = job[w].took
    BY <1>0, <2>1 DEF JobType
  <2>4. Wanted(j) \subseteq Wanted(job[w])
    BY <2>3 DEF Wanted
  <2>5. (\A a : LevelId(a) => LevelId(a)') => InOrder(j)'
    BY <1>0, <2>2, <2>3 DEF InOrder, Holds
  <2>6. Moves(w, j)
    BY <2>1
  <2> QED BY <2>2, <2>4, <2>5, <2>6, OrderStep
<1> QED BY <1>1, <1>2, <1>3 DEF DeleteRows

LEMMA SendOrdered ==
  ASSUME TInv, Ordered, NEW w \in Workers, SendReferral(w)
  PROVE  Ordered'
<1>0. job[w] \in JobType /\ InOrder(job[w])
  BY Worker DEF Ordered
<1>1. CASE LoadFails(w)
  <2>1. serial' \in Nat /\ serial <= serial'
    BY <1>1, Worker DEF LoadFails
  <2> QED BY <1>1, <2>1, EndOrdered DEF LoadFails
<1>2. CASE Load(w)
  <2>1. PICK r, inviter, j :
           /\ r \in referrals
           /\ Moves(w, j)
           /\ j = [job[w] EXCEPT
                !.pc = IF pref[inviter] = "levels" THEN "select" ELSE "commit",
                !.ref = r.id, !.inviter = r.inviter]
    BY <1>2, LoadMoves
  <2>2. UNCHANGED <<referrals, levels>> /\ job[w].pc = "begin"
    BY <1>2 DEF Load
  <2>3. /\ j.pc \in {"select", "commit"} /\ j.ref = r.id
        /\ j.made = job[w].made /\ j.took = job[w].took
    BY <1>0, <2>1 DEF JobType
  <2>4. Moves(w, j) /\ r.id \in IdsOf(referrals)
    BY <2>1 DEF IdsOf
  <2> QED BY <1>0, <2>2, <2>3, <2>4, NothingTaken DEF InOrder
<1>3. CASE SelectOnConnect(w)
  <2>1. PICK j : /\ Moves(w, j)
                 /\ \/ j = Idle
                    \/ j = [job[w] EXCEPT !.pc = "untracked",
                                          !.summary = Summary(job[w].inviter)]
    BY <1>3, SelectOnConnectMoves
  <2>2. UNCHANGED <<referrals, levels>> /\ job[w].pc = "select"
    BY <1>3 DEF SelectOnConnect, On
  <2>3. /\ j.pc \in {"idle", "untracked"} /\ j.ref \in {0, job[w].ref}
        /\ j.took \in {{}, job[w].took} /\ j.made \in {{}, job[w].made}
    <3>1. CASE j = Idle
      BY <3>1 DEF Idle
    <3>2. CASE j # Idle
      BY <1>0, <2>1, <3>2 DEF JobType
    <3> QED BY <3>1, <3>2
  <2> QED BY <1>0, <2>1, <2>2, <2>3, NothingTaken DEF InOrder
<1>4. CASE SelectOnDisconnect(w)
  <2>1. PICK j : /\ Moves(w, j)
                 /\ \/ j = [job[w] EXCEPT !.pc = "commit"]
                    \/ \E l \in levels :
                         j = [job[w] EXCEPT !.pc = "levels",
                                !.summary = Summary(job[w].inviter), !.left = {l.id}]
    BY <1>4, SelectOnDisconnectMoves
  <2>2. UNCHANGED <<referrals, levels>> /\ job[w].pc = "select"
    BY <1>4 DEF SelectOnDisconnect, On
  <2>3. /\ j.ref = job[w].ref /\ j.made = job[w].made /\ j.took = job[w].took
        /\ \/ j.pc = "commit"
           \/ j.pc = "levels" /\ \E l \in levels : j.left = {l.id}
    BY <1>0, <2>1 DEF JobType
  <2>4. Wanted(j) \subseteq Wanted(job[w])
    BY <2>3 DEF Wanted
  <2>5. j.took = {} /\ (j.pc = "levels" => \A a \in Holds(j) : LevelId(a))
    BY <1>0, <2>2, <2>3 DEF InOrder, Ordered, Holds
  <2>6. (\A a : LevelId(a) => LevelId(a)') => InOrder(j)'
    BY <1>0, <2>3, <2>5 DEF InOrder
  <2>7. Moves(w, j)
    BY <2>1
  <2> QED BY <2>2, <2>4, <2>6, <2>7, OrderStep
<1>5. CASE GetUntracked(w)
  <2>1. PICK ids, j : Moves(w, j) /\ j = [job[w] EXCEPT !.pc = "recount", !.untracked = ids]
    BY <1>5, GetUntrackedMoves
  <2>2. UNCHANGED <<referrals, levels>>
    BY <1>5 DEF GetUntracked
  <2>3. /\ j.pc = "recount" /\ j.ref = job[w].ref
        /\ j.made = job[w].made /\ j.left = job[w].left /\ j.took = job[w].took
    BY <1>0, <2>1 DEF JobType
  <2>4. Wanted(j) \subseteq Wanted(job[w])
    BY <2>3 DEF Wanted
  <2>5. (\A a : LevelId(a) => LevelId(a)') => InOrder(j)'
    BY <1>0, <2>3 DEF InOrder
  <2>6. Moves(w, j)
    BY <2>1
  <2> QED BY <2>2, <2>4, <2>5, <2>6, OrderStep
<1>6. CASE AddLevel(w)
  <2>1. PICK group, j :
           /\ Moves(w, j)
           /\ j = [job[w] EXCEPT
                !.untracked = @ \ group,
                !.made = @ \cup {[id |-> serial, owner |-> job[w].inviter, linked |-> group]}]
    BY <1>6, AddLevelMoves
  <2> DEFINE row == [id |-> serial, owner |-> job[w].inviter, linked |-> group]
  <2>2. /\ UNCHANGED <<referrals, levels>> /\ serial' = serial + 1
        /\ job[w].pc = "recount" /\ row.id = serial
    BY <1>6 DEF AddLevel
  <2> HIDE DEF row
  <2>3. /\ j.pc = "recount" /\ j.ref = job[w].ref /\ j.made = job[w].made \cup {row}
        /\ j.left = job[w].left /\ j.took = job[w].took
    BY <1>0, <2>1, <2>2 DEF JobType, row
  <2>4. Wanted(j) = Wanted(job[w])
    BY <2>2, <2>3 DEF Wanted
  <2>5. \E n : n = serial /\ LevelId(n)'
    <3>1. \A v \in Workers : serial \notin Wanted(job[v])
      BY Fresh, Worker DEF Wanted, Knows, Holds
    <3>2. \A v \in Workers : serial \notin Wanted(job'[v])
      BY <2>1, <2>4, <3>1, Jobs
    <3>3. serial \notin IdsOf(referrals)
      BY Fresh, Worker DEF IdsOf
    <3>4. serial \in Nat /\ 0 < serial /\ serial < serial'
      BY <2>2, Worker
    <3>5. PICK n : n = serial
      OBVIOUS
    <3>6. LevelId(n)'
      BY <2>2, <3>2, <3>3, <3>4, <3>5 DEF LevelId, IdsOf
    <3> QED BY <3>5, <3>6
  <2>6. (\A a : LevelId(a) => LevelId(a)') => InOrder(j)'
    BY <1>0, <2>2, <2>3, <2>5 DEF InOrder
  <2>7. Moves(w, j)
    BY <2>1
  <2> QED BY <2>2, <2>4, <2>6, <2>7, OrderStep
<1>7. CASE Commit(w)
  <2>1. PICK j : /\ Moves(w, j)
                 /\ \/ j = Idle
                    \/ j = [Idle EXCEPT !.pc = "reload", !.op = job[w].op,
                                        !.user = job[w].user, !.uid = job[w].uid]
    BY <1>7, CommitMoves
  <2>2. /\ IdsOf(referrals') \subseteq IdsOf(referrals)
        /\ levels' \subseteq levels \cup job[w].made
    BY <1>7 DEF Commit, Without, IdsOf
  <2>3. j.pc \in {"idle", "reload"} /\ j.ref = 0 /\ j.took = {} /\ j.made = {}
    <3>1. CASE j = Idle
      BY <3>1 DEF Idle
    <3>2. CASE j = [Idle EXCEPT !.pc = "reload", !.op = job[w].op,
                                !.user = job[w].user, !.uid = job[w].uid]
      BY <3>2 DEF Idle
    <3> QED BY <2>1, <3>1, <3>2
  <2>4. Moves(w, j)
    BY <2>1
  <2> QED BY <2>2, <2>3, <2>4, NothingTaken
<1> QED BY <1>1, <1>2, <1>3, <1>4, <1>5, <1>6, <1>7 DEF SendReferral

LEMMA OthersOrdered ==
  ASSUME TInv, Ordered, NEW w \in Workers,
         \/ Receive(w) \/ Fail(w) \/ BonusSave(w) \/ EraseCommit(w) \/ UpdateReferral(w)
  PROVE  Ordered'
<1>0. job[w] \in JobType /\ InOrder(job[w])
  BY Worker DEF Ordered
<1>1. CASE Receive(w)
  <2>1. PICK u, j :
           /\ Moves(w, j)
           /\ j = [Idle EXCEPT !.pc = "begin", !.op = u.op, !.user = u.user,
                               !.code = u.code, !.pref = u.pref, !.uid = account[u.user]]
    BY <1>1, ReceiveMoves
  <2>2. j.pc = "begin" /\ j.ref = 0 /\ j.took = {} /\ j.made = {}
    BY <2>1 DEF Idle
  <2>3. UNCHANGED <<referrals, levels>>
    BY <1>1 DEF Receive
  <2>4. Moves(w, j)
    BY <2>1
  <2> QED BY <2>2, <2>3, <2>4, NothingTaken
<1>2. CASE Fail(w) \/ BonusSave(w) \/ EraseCommit(w) \/ SaveReward(w) \/ DropReferral(w)
  <2>1. /\ serial' = serial /\ job' = [job EXCEPT ![w] = Idle]
        /\ levels' \subseteq levels
    BY <1>2 DEF Fail, BonusSave, EraseCommit, SaveReward, DropReferral, Without
  <2>2. IdsOf(referrals') \subseteq IdsOf(referrals)
    <3>1. CASE SaveReward(w)
      <4>1. referrals' = {Saved(w, r) : r \in referrals}
        BY <3>1 DEF SaveReward, Saved
      <4> QED BY <4>1, SavedRow DEF IdsOf
    <3>2. CASE ~SaveReward(w)
      BY <1>2, <3>2 DEF Fail, BonusSave, EraseCommit, DropReferral, Without, IdsOf
    <3> QED BY <3>1, <3>2
  <2>3. serial' \in Nat /\ serial <= serial'
    BY <2>1, Worker
  <2> QED BY <2>1, <2>2, <2>3, EndOrdered
<1>3. CASE Reload(w)
  <2>1. PICK r \in referrals, inviter \in Users : \E j :
           /\ Moves(w, j)
           /\ j = [job[w] EXCEPT !.pc = "save", !.ref = r.id, !.pref = pref[inviter],
                                 !.paid = r.money \/ pref[inviter] = "money"]
    BY <1>3, ReloadMoves
  <2>2. PICK j :
           /\ Moves(w, j)
           /\ j = [job[w] EXCEPT !.pc = "save", !.ref = r.id, !.pref = pref[inviter],
                                 !.paid = r.money \/ pref[inviter] = "money"]
    BY <2>1
  <2>3. UNCHANGED <<referrals, levels>> /\ job[w].pc = "reload"
    BY <1>3 DEF Reload
  <2>4. j.pc = "save" /\ j.ref = r.id /\ j.made = job[w].made /\ j.took = job[w].took
    BY <1>0, <2>2 DEF JobType
  <2>5. Moves(w, j) /\ r.id \in IdsOf(referrals)
    BY <2>2 DEF IdsOf
  <2> QED BY <1>0, <2>3, <2>4, <2>5, NothingTaken DEF InOrder
<1> QED BY <1>1, <1>2, <1>3 DEF UpdateReferral

LEMMA NextOrdered ==
  ASSUME TInv, Ordered, [Next]_vars
  PROVE  Ordered'
<1>1. ASSUME NEW w \in Workers, Receive(w) \/ Step(w) \/ Fail(w) PROVE Ordered'
  <2>1. CASE Start(w)
    BY <2>1, StartOrdered
  <2>2. CASE DeleteRows(w) \/ BeginErase(w)
    BY <2>2, RowsOrdered
  <2>3. CASE SendReferral(w)
    BY <2>3, SendOrdered
  <2>4. CASE \/ Receive(w) \/ Fail(w) \/ BonusSave(w) \/ EraseCommit(w) \/ UpdateReferral(w)
    BY <2>4, OthersOrdered
  <2> QED BY <1>1, <2>1, <2>2, <2>3, <2>4 DEF Step, Erase
<1>2. CASE UNCHANGED <<referrals, levels, job, serial>>
  <2>1. \A a : LevelId(a) <=> LevelId(a)'
    BY <1>2 DEF LevelId
  <2>2. \A x : InOrder(x) => InOrder(x)'
    BY <2>1 DEF InOrder
  <2> QED BY <1>2, <2>1, <2>2 DEF Ordered
<1> QED BY <1>1, <1>2 DEF Next, Expire, vars

-----------------------------------------------------------------------------
(* No circle.                                                              *)

LEMMA NobodyStuck == TInv /\ Ordered => NoDeadlock
<1> SUFFICES ASSUME TInv, Ordered, NEW S \in SUBSET Workers, S # {},
                    \A w \in S : \E v \in S : WaitsFor(w, v)
             PROVE  FALSE
  BY DEF NoDeadlock
<1>1. \A w \in S : job[w].pc \in {"begin", "levels", "referrals", "save"}
  BY DEF WaitsFor, On
<1>2. \A w \in S : job[w].took # {} => job[w].pc \in {"levels", "referrals"}
  BY <1>1 DEF Ordered, InOrder
<1>3. \A w \in Workers : job[w].left \subseteq 0 .. serial /\ serial \in Nat
  BY Worker DEF JobType, Ids
<1>4. \A v \in S : ~On(v, "commit", "start")
  BY <1>1 DEF On
<1> DEFINE Row(pc) == {id \in 0 .. serial : \E w, v \in S :
                         job[w].pc = pc /\ id \in job[w].left /\ id \in job[v].took}
<1>5. ASSUME NEW w \in S, job[w].pc = "referrals" PROVE FALSE
  <2>1. \A v \in S : job[v].pc = "referrals" =>
          \E id \in Row("referrals") : id \in job[v].left
    BY <1>3 DEF WaitsFor, On
  <2>2. Row("referrals") \in SUBSET (0 .. serial) /\ Row("referrals") # {}
    BY <1>5, <2>1
  <2>3. PICK id \in Row("referrals") : \A other \in Row("referrals") : other <= id
    BY <1>3, <1>5, <2>2, GreatestExists
  <2>4. PICK x, v \in S : job[x].pc = "referrals" /\ id \in job[x].left /\ id \in job[v].took
    OBVIOUS
  <2>5. ~LevelId(id)
    BY <2>4 DEF LevelId, Wanted
  <2>6. job[v].pc = "referrals"
    BY <1>2, <2>4, <2>5 DEF Ordered, InOrder, Holds
  <2>7. PICK next \in Row("referrals") : next \in job[v].left
    BY <2>1, <2>6
  <2>8. id < next
    BY <2>4, <2>5, <2>6, <2>7 DEF Ordered, InOrder
  <2> QED BY <1>3, <1>5, <2>2, <2>3, <2>7, <2>8
<1>6. ASSUME NEW w \in S PROVE job[w].pc = "levels"
  <2>1. \A v \in S : ~On(v, "referrals", "delete")
    BY <1>5 DEF On
  <2>2. job[w].pc # "begin"
    BY <1>4, <2>1 DEF WaitsFor, On
  <2>3. ASSUME job[w].pc = "save" PROVE FALSE
    <3>1. PICK v \in S : job[w].ref \in job[v].took
      BY <2>3 DEF WaitsFor, On
    <3>2. job[v].pc = "levels"
      BY <1>2, <1>5, <3>1
    <3>3. LevelId(job[w].ref)
      BY <3>1, <3>2 DEF Ordered, InOrder, Holds
    <3> QED BY <3>3 DEF LevelId, Wanted
  <2> QED BY <1>1, <1>5, <2>2, <2>3
<1>7. \A v \in S : \E id \in Row("levels") : id \in job[v].left
  <2>1. \A v \in S : ~On(v, "referrals", "delete")
    BY <1>5 DEF On
  <2> QED BY <1>3, <1>6, <2>1 DEF WaitsFor, On
<1>8. Row("levels") \in SUBSET (0 .. serial) /\ Row("levels") # {}
  BY <1>7
<1>9. PICK id \in Row("levels") : \A other \in Row("levels") : other <= id
  BY <1>3, <1>8, GreatestExists
<1>10. PICK v \in S : id \in job[v].took
  OBVIOUS
<1>11. PICK next \in Row("levels") : next \in job[v].left
  BY <1>7
<1>12. id < next
  BY <1>6, <1>10, <1>11 DEF Ordered, InOrder
<1> QED BY <1>3, <1>8, <1>9, <1>11, <1>12

\* Whatever handlers run at once, on however many workers: none of them wait for each
\* other in a circle, for rows or for a signup.
THEOREM DeadlockFree == Spec => []NoDeadlock
<1>1. Init => Ordered
  BY InitOrdered
<1>2. TInv /\ Ordered /\ [Next]_vars => Ordered'
  BY NextOrdered
<1>3. TInv /\ Ordered => NoDeadlock
  BY NobodyStuck
<1> QED BY <1>1, <1>2, <1>3, TypeInvariant, PTL DEF Spec
===============================================================================
