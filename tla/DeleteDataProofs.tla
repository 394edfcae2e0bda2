--------------------------- MODULE DeleteDataProofs ---------------------------
(***************************************************************************)
(* Theorems about DeleteData for any users, workers, routes, updates and   *)
(* bounds, checked by TLAPS: nobody is left half there, and the deletion   *)
(* implements Erasure.                                                     *)
(***************************************************************************)
EXTENDS DeleteData, FiniteSetTheorems, TLAPS

-----------------------------------------------------------------------------
(* What the tables and the sequence are.                                   *)

LEMMA Interval == \A a, b \in Nat : a <= b => 0 .. a - 1 \subseteq 0 .. b - 1
OBVIOUS

LEMMA OrderFacts ==
  /\ Len(Order) = 5 /\ DOMAIN Order = 1 .. 5
  /\ Tables = {"userlevels", "usersettings", "mirrors", "payments", "referrals"}
  /\ \A t \in Tables : \E i \in 1 .. Len(Order) : t = Order[i]
<1>1. Len(Order) = 5 /\ DOMAIN Order = 1 .. 5
  BY DEF Order
<1>2. Tables = {Order[i] : i \in 1 .. 5}
  BY <1>1 DEF Tables, ToSet
<1>3. /\ Order[1] = "userlevels" /\ Order[2] = "usersettings" /\ Order[3] = "mirrors"
      /\ Order[4] = "payments" /\ Order[5] = "referrals"
  BY DEF Order
<1>4. 1 .. 5 = {1, 2, 3, 4, 5}
  OBVIOUS
<1>5. Tables = {"userlevels", "usersettings", "mirrors", "payments", "referrals"}
  BY <1>2, <1>3, <1>4
<1> QED BY <1>1, <1>2, <1>5

LEMMA Grow ==
  ASSUME TypeOK, serial' \in Nat, serial <= serial', asked' \in Nat, asked <= asked'
  PROVE  Ids \subseteq Ids' /\ RowType \subseteq RowType' /\ JobType \subseteq JobType'
<1>1. Ids \subseteq Ids'
  BY Interval DEF Ids, TypeOK
<1>2. RowType \subseteq RowType'
  BY <1>1 DEF RowType
<1>3. 0 .. asked \subseteq 0 .. asked'
  BY DEF TypeOK
<1> QED BY <1>1, <1>2, <1>3, SMTT(60) DEF JobType

LEMMA IdleType == TypeOK => Idle \in JobType
BY OrderFacts, NobodyAssumption DEF TypeOK, Idle, JobType, Ids

-----------------------------------------------------------------------------
(* The inductive invariant.                                                *)

\* What a worker is doing, by itself: an update that arrived; a signup with an id
\* of its own; a deletion of an account that exists, of rows about that account.
Sound(x) ==
  /\ x.pc # "idle" => x.user \in Users
  /\ x.op = "write" => x.other \in Users
  /\ x.pc = "signup" => x.op = "start" /\ x.uid # 0
  /\ x.pc = "delete" => x.op = "confirm" /\ x.uid # 0 /\ x.next # 0
  /\ x.pc # "delete" => x.seen = {} /\ x.doomed = {}
  /\ \A r \in x.seen \cup x.doomed : x.uid \in r.of

Asking == {w \in Workers : On(w, "begin", "ask")}

\* Warnings are sent by updates, one each.
Counted ==
  /\ \A w \in Workers : Sound(job[w])
  /\ IsFiniteSet(Asking)
  /\ asked + Cardinality(Asking) <= received

\* The account of an open signup is nobody's yet, and its user has none.
Signing(w) == job[w].pc = "signup"
Signups ==
  \A w \in Workers : Signing(w) =>
    /\ account[job[w].user] = 0
    /\ \A u \in Users : account[u] # job[w].uid
    /\ \A v \in Workers \ {w} : Signing(v) =>
          job[v].uid # job[w].uid /\ job[v].user # job[w].user

\* What a deletion will still find of what was there when it began.
IsAhead(x, r) == \E i \in x.next .. Len(Order) : r.table = Order[i]

\* Deletions take different rows, and an intact one misses nothing.
Deletions ==
  /\ \A w \in Workers : \A v \in Workers \ {w} : job[w].doomed \cap job[v].doomed = {}
  /\ \A w \in Workers :
       ~job[w].aborted =>
         \A r \in job[w].seen \cap rows : r \in job[w].doomed \/ IsAhead(job[w], r)

IInv == TypeOK /\ Counted /\ Signups /\ Deletions /\ MemberHasSettings

-----------------------------------------------------------------------------
(* Types.                                                                  *)

LEMMA InitType == Init => TypeOK /\ Counted
<1> SUFFICES ASSUME Init PROVE TypeOK /\ Counted
  OBVIOUS
<1>1. serial \in Nat \ {0} /\ account \in [Users -> Ids]
  BY AccountAssumption DEF Init, Ids
<1>2. asked = 0 /\ received = 0 /\ 0 \in 0 .. MaxUpdates /\ faults \in 0 .. MaxFaults
  BY BoundsAssumption DEF Init
<1>3. Idle \in JobType
  BY <1>1, <1>2, OrderFacts, NobodyAssumption DEF Idle, JobType, Ids
<1>4. \A w \in Workers : job[w] = Idle
  BY DEF Init
<1>5. rows \subseteq RowType
  BY <1>1, OrderFacts DEF Init, RowType, Row
<1>6. TypeOK
  BY <1>1, <1>2, <1>3, <1>4, <1>5 DEF TypeOK, Init, Idle
<1>7. Asking = {}
  BY <1>4 DEF Asking, On, Idle
<1> QED BY <1>2, <1>4, <1>6, <1>7, FS_EmptySet DEF Counted, Sound, Idle

\* What a step of worker w must show of the job x it leaves and of the rest.
LEMMA StepType ==
  ASSUME TypeOK, NEW w \in Workers, NEW x,
         job' = [job EXCEPT ![w] = x], x \in JobType',
         serial' \in Nat, serial <= serial', asked' \in 0 .. MaxUpdates, asked <= asked',
         account' \in [Users -> Ids'], rows' \subseteq RowType',
         warnings' \in [Users -> SUBSET (1 .. asked')],
         received' \in 0 .. MaxUpdates, faults' \in 0 .. MaxFaults,
         x.doomed \subseteq rows',
         \A v \in Workers \ {w} : job[v].doomed \subseteq rows'
  PROVE  TypeOK'
<1>0. asked' \in Nat
  BY BoundsAssumption
<1>1. job' \in [Workers -> JobType']
  BY <1>0, Grow DEF TypeOK
<1>2. \A v \in Workers : job'[v].doomed \subseteq rows'
  BY DEF TypeOK
<1>3. serial' \in Nat \ {0}
  BY DEF TypeOK
<1> QED BY <1>1, <1>2, <1>3 DEF TypeOK

\* A step that only writes the job, and may draw ids.
LEMMA JobType1 ==
  ASSUME TypeOK, NEW w \in Workers, NEW x,
         job' = [job EXCEPT ![w] = x], x \in JobType',
         serial' \in Nat, serial <= serial',
         x.doomed \subseteq rows, received' \in 0 .. MaxUpdates, faults' \in 0 .. MaxFaults,
         UNCHANGED <<account, rows, warnings, asked>>
  PROVE  TypeOK'
<1>1. asked \in Nat /\ asked <= asked
  BY BoundsAssumption DEF TypeOK
<1>2. account' \in [Users -> Ids'] /\ rows' \subseteq RowType'
  BY <1>1, Grow DEF TypeOK
<1> QED BY <1>1, <1>2, StepType DEF TypeOK

\* A step that ends the handler and writes neither accounts nor rows.
LEMMA EndType ==
  ASSUME TypeOK, NEW w \in Workers, job' = [job EXCEPT ![w] = Idle],
         serial' \in Nat, serial <= serial', faults' \in 0 .. MaxFaults,
         UNCHANGED <<account, rows, warnings, asked, received>>
  PROVE  TypeOK'
<1>1. asked' \in Nat /\ asked <= asked'
  BY BoundsAssumption DEF TypeOK
<1>2. Idle \in JobType'
  BY <1>1, IdleType, Grow
<1>3. received' \in 0 .. MaxUpdates /\ Idle.doomed \subseteq rows
  BY DEF TypeOK, Idle
<1> QED BY <1>2, <1>3, JobType1

LEMMA ReceiveType == ASSUME TypeOK, NEW w \in Workers, Receive(w) PROVE TypeOK'
<1>1. PICK u \in Updates : \E m \in IF u.op \in {"cancel", "confirm"} THEN warnings[u.user] ELSE {0} :
          job' = [job EXCEPT ![w] =
            [Idle EXCEPT !.pc = "begin", !.op = u.op, !.user = u.user, !.warning = m,
                         !.other = u.other, !.table = u.table]]
  BY DEF Receive
<1>2. PICK m \in IF u.op \in {"cancel", "confirm"} THEN warnings[u.user] ELSE {0} :
          job' = [job EXCEPT ![w] =
            [Idle EXCEPT !.pc = "begin", !.op = u.op, !.user = u.user, !.warning = m,
                         !.other = u.other, !.table = u.table]]
  BY <1>1
<1> DEFINE x == [Idle EXCEPT !.pc = "begin", !.op = u.op, !.user = u.user, !.warning = m,
                             !.other = u.other, !.table = u.table]
<1>3. u \in UpdateType /\ u.table \in Tables
  BY OrderFacts, UpdatesAssumption DEF UpdateType
<1>4. m \in 0 .. asked
  BY <1>3, BoundsAssumption DEF TypeOK, UpdateType
<1>5. x \in JobType
  BY <1>3, <1>4, IdleType DEF JobType, UpdateType
<1>6. serial' = serial /\ asked' = asked /\ received' = received + 1
  BY DEF Receive
<1>7. x \in JobType'
  BY <1>5, <1>6, Grow, BoundsAssumption DEF TypeOK
<1>8. x.doomed \subseteq rows /\ received' \in 0 .. MaxUpdates
  BY <1>6, BoundsAssumption DEF Receive, TypeOK, Idle
<1>9. job' = [job EXCEPT ![w] = x]
  BY <1>2
<1> HIDE DEF x
<1>10. serial' \in Nat /\ serial <= serial' /\ faults' \in 0 .. MaxFaults
        /\ UNCHANGED <<account, rows, warnings, asked>>
  BY DEF Receive, TypeOK
<1> QED BY <1>7, <1>8, <1>9, <1>10, JobType1

LEMMA StartType == ASSUME TypeOK, Counted, NEW w \in Workers, Start(w) PROVE TypeOK'
<1>0. /\ job[w] \in JobType /\ Sound(job[w])
      /\ serial \in Nat \ {0} /\ received \in 0 .. MaxUpdates /\ faults \in 0 .. MaxFaults
  BY DEF TypeOK, Counted
<1>1. CASE StartKnown(w)
  <2>1. serial' \in Nat /\ serial <= serial' /\ faults' \in 0 .. MaxFaults
    BY <1>0, <1>1 DEF StartKnown
  <2> QED BY <1>1, <2>1, EndType DEF StartKnown, Done
<1>2. CASE StartNew(w)
  <2> DEFINE inviter == IF job[w].other \in Users \ {job[w].user} THEN account[job[w].other] ELSE 0
             x == [job[w] EXCEPT !.pc = "signup", !.uid = serial, !.code = inviter]
  <2>1. /\ serial' = serial + 1
        /\ UNCHANGED <<account, rows, warnings, asked, received, faults>>
        /\ serial' \in Nat /\ serial <= serial'
        /\ faults' \in 0 .. MaxFaults /\ received' \in 0 .. MaxUpdates
    BY <1>0, <1>2 DEF StartNew
  <2>2. CASE job' = [job EXCEPT ![w] = Idle]
    BY <2>1, <2>2, EndType
  <2>3. CASE job' = [job EXCEPT ![w] = x]
    <3>1. inviter \in Ids' /\ serial \in Ids'
      BY <1>0, <2>1 DEF TypeOK, Ids
    <3>2. job[w] \in JobType'
      BY <1>0, <2>1, Grow, BoundsAssumption DEF TypeOK
    <3> HIDE DEF inviter
    <3>3. x \in JobType'
      BY <3>1, <3>2 DEF JobType
    <3>4. x.doomed \subseteq rows
      BY DEF TypeOK, JobType
    <3> HIDE DEF x
    <3> QED BY <2>1, <2>3, <3>3, <3>4, JobType1
  <2> QED BY <1>2, <2>2, <2>3 DEF StartNew, Done
<1>3. CASE StartCommit(w)
  <2> DEFINE y == job[w]
  <2>1. /\ serial' = serial + 1
        /\ job' = [job EXCEPT ![w] = Idle]
        /\ UNCHANGED <<warnings, asked, received, faults>>
        /\ account' = [account EXCEPT ![y.user] = y.uid]
        /\ rows' = rows \cup {Row(serial, "usersettings", {y.uid})}
                        \cup IF y.code = 0 THEN {} ELSE {Row(serial, "referrals", {y.uid, y.code})}
    BY <1>3 DEF StartCommit, Done
  <2>2. Ids \subseteq Ids' /\ RowType \subseteq RowType' /\ serial \in Ids' /\ JobType \subseteq JobType'
    BY <1>0, <2>1, Grow, BoundsAssumption DEF TypeOK, Ids
  <2>3. y.uid \in Ids /\ y.code \in Ids
    BY <1>0 DEF JobType
  <2>4. account' \in [Users -> Ids']
    BY <2>1, <2>2, <2>3 DEF TypeOK
  <2>5. Row(serial, "usersettings", {y.uid}) \in RowType' /\ Row(serial, "referrals", {y.uid, y.code}) \in RowType'
    BY <2>2, <2>3, OrderFacts DEF Row, RowType
  <2>6. rows' \subseteq RowType' /\ rows \subseteq rows'
    BY <2>1, <2>2, <2>5 DEF TypeOK
  <2>7. Idle \in JobType' /\ Idle.doomed \subseteq rows'
    BY <2>2, IdleType DEF Idle
  <2>8. \A v \in Workers : job[v].doomed \subseteq rows'
    BY <2>6 DEF TypeOK
  <2>9. asked' \in 0 .. MaxUpdates /\ asked <= asked' /\ received' \in 0 .. MaxUpdates
        /\ faults' \in 0 .. MaxFaults /\ warnings' \in [Users -> SUBSET (1 .. asked')]
        /\ serial' \in Nat /\ serial <= serial'
    BY <1>0, <2>1, BoundsAssumption DEF TypeOK
  <2> HIDE DEF y
  <2> QED BY ONLY TypeOK, w \in Workers, <2>1, <2>4, <2>6, <2>7, <2>8, <2>9, StepType
<1> QED BY <1>1, <1>2, <1>3 DEF Start

LEMMA WriteType == ASSUME TypeOK, Counted, NEW w \in Workers, FindOther(w) \/ Insert(w) PROVE TypeOK'
<1>0. /\ job[w] \in JobType /\ Sound(job[w])
      /\ serial \in Nat \ {0} /\ received \in 0 .. MaxUpdates /\ faults \in 0 .. MaxFaults
  BY DEF TypeOK, Counted
<1>1. CASE FindOther(w)
  <2> DEFINE x == [job[w] EXCEPT !.pc = "write", !.uid = account[job[w].other]]
  <2>0. /\ serial' = serial /\ serial' \in Nat /\ serial <= serial'
        /\ faults' \in 0 .. MaxFaults /\ received' \in 0 .. MaxUpdates
        /\ UNCHANGED <<account, rows, warnings, asked, received>>
    BY <1>0, <1>1 DEF FindOther
  <2>1. CASE job' = [job EXCEPT ![w] = Idle]
    BY <2>0, <2>1, EndType
  <2>2. CASE job' = [job EXCEPT ![w] = x]
    <3>1. job[w].other \in Users
      BY <1>0, <1>1 DEF FindOther, On, Sound
    <3>2. account[job[w].other] \in Ids
      BY <3>1 DEF TypeOK
    <3>3. x \in JobType /\ x.doomed \subseteq rows
      BY <1>0, <3>2 DEF JobType, TypeOK
    <3>4. x \in JobType'
      BY <1>0, <2>0, <3>3, Grow, BoundsAssumption DEF TypeOK
    <3> HIDE DEF x
    <3> QED BY <2>0, <2>2, <3>3, <3>4, JobType1
  <2> QED BY <1>1, <2>1, <2>2 DEF FindOther, Done
<1>2. CASE Insert(w)
  <2> DEFINE y == job[w]
  <2>1. /\ serial' = serial + 1
        /\ job' = [job EXCEPT ![w] = Idle]
        /\ UNCHANGED <<account, warnings, asked, received, faults>>
        /\ rows' = rows \cup {Row(serial, y.table, {y.uid})}
    BY <1>2 DEF Insert, Done
  <2>2. Ids \subseteq Ids' /\ RowType \subseteq RowType' /\ serial \in Ids' /\ JobType \subseteq JobType'
    BY <1>0, <2>1, Grow, BoundsAssumption DEF TypeOK, Ids
  <2>3. y.uid \in Ids /\ y.table \in Tables
    BY <1>0 DEF JobType
  <2>4. account' \in [Users -> Ids']
    BY <2>1, <2>2 DEF TypeOK
  <2>5. Row(serial, y.table, {y.uid}) \in RowType'
    BY <2>2, <2>3 DEF Row, RowType
  <2>6. rows' \subseteq RowType' /\ rows \subseteq rows'
    BY <2>1, <2>2, <2>5 DEF TypeOK
  <2>7. Idle \in JobType' /\ Idle.doomed \subseteq rows'
    BY <2>2, IdleType DEF Idle
  <2>8. \A v \in Workers : job[v].doomed \subseteq rows'
    BY <2>6 DEF TypeOK
  <2>9. asked' \in 0 .. MaxUpdates /\ asked <= asked' /\ received' \in 0 .. MaxUpdates
        /\ faults' \in 0 .. MaxFaults /\ warnings' \in [Users -> SUBSET (1 .. asked')]
        /\ serial' \in Nat /\ serial <= serial'
    BY <1>0, <2>1, BoundsAssumption DEF TypeOK
  <2> HIDE DEF y
  <2> QED BY ONLY TypeOK, w \in Workers, <2>1, <2>4, <2>6, <2>7, <2>8, <2>9, StepType
<1> QED BY <1>1, <1>2

\* A warning is only sent for an update that has not been counted yet.
LEMMA AskRoom ==
  ASSUME TypeOK, Counted, NEW w \in Workers, On(w, "begin", "ask")
  PROVE  asked + 1 \in 0 .. MaxUpdates
<1>1. w \in Asking
  BY DEF Asking
<1>2. Cardinality(Asking) \in Nat /\ Cardinality(Asking) # 0
  BY <1>1, FS_CardinalityType, FS_EmptySet DEF Counted
<1> QED BY <1>2, BoundsAssumption DEF TypeOK, Counted

LEMMA WarningType == ASSUME TypeOK, Counted, NEW w \in Workers, Ask(w) \/ Close(w) PROVE TypeOK'
<1>0. /\ job[w] \in JobType /\ Sound(job[w])
      /\ serial \in Nat \ {0} /\ received \in 0 .. MaxUpdates /\ faults \in 0 .. MaxFaults
      /\ asked \in Nat /\ asked \in 0 .. MaxUpdates
  BY BoundsAssumption DEF TypeOK, Counted
<1>1. asked' \in 0 .. MaxUpdates /\ asked <= asked' /\ asked' \in Nat
  BY <1>0, AskRoom, BoundsAssumption DEF Ask, Close
<1>2. /\ job' = [job EXCEPT ![w] = Idle]
      /\ serial' = serial /\ serial' \in Nat /\ serial <= serial'
      /\ received' \in 0 .. MaxUpdates /\ faults' \in 0 .. MaxFaults
      /\ account' = account /\ rows' = rows
  BY <1>0 DEF Ask, Close, Done
<1>3. warnings' \in [Users -> SUBSET (1 .. asked')]
  <2>1. warnings \in [Users -> SUBSET (1 .. asked')]
    BY <1>0, <1>1 DEF TypeOK
  <2>2. CASE Ask(w)
    <3>1. asked' \in 1 .. asked'
      BY <1>0, <2>2 DEF Ask
    <3> QED BY <2>1, <2>2, <3>1 DEF Ask
  <2>3. CASE Close(w)
    BY <2>1, <2>3 DEF Close
  <2> QED BY <2>2, <2>3
<1>4. Idle \in JobType' /\ Idle.doomed \subseteq rows'
  BY <1>1, <1>2, IdleType, Grow DEF Idle
<1>5. account' \in [Users -> Ids'] /\ rows' \subseteq RowType'
  BY <1>1, <1>2, Grow DEF TypeOK
<1>6. \A v \in Workers : job[v].doomed \subseteq rows'
  BY <1>2 DEF TypeOK
<1> QED BY <1>1, <1>2, <1>3, <1>4, <1>5, <1>6, StepType

\* What a step of a deletion leaves of the job, if it stays a deletion.
LEMMA DeletionType ==
  ASSUME TypeOK, Counted, NEW w \in Workers,
         \/ Begin(w) \/ Delete(w) \/ DeleteFails(w) \/ Tell(w)
  PROVE  TypeOK'
<1>0. /\ job[w] \in JobType /\ Sound(job[w]) /\ job[w].doomed \subseteq rows
      /\ serial \in Nat \ {0} /\ received \in 0 .. MaxUpdates /\ faults \in 0 .. MaxFaults
      /\ asked \in Nat /\ rows \subseteq RowType
  BY BoundsAssumption DEF TypeOK, Counted
<1>1. /\ UNCHANGED <<account, rows, warnings, asked, received>>
      /\ serial' = serial /\ serial' \in Nat /\ serial <= serial'
      /\ received' \in 0 .. MaxUpdates
  BY <1>0 DEF Begin, Delete, DeleteFails, Tell
<1>2. faults' \in 0 .. MaxFaults
  BY <1>0, BoundsAssumption DEF Begin, Delete, DeleteFails, Tell
<1>3. JobType \subseteq JobType'
  BY <1>0, <1>1, Grow
<1>4. SUFFICES ASSUME NEW x, job' = [job EXCEPT ![w] = x], x \in JobType, x.doomed \subseteq rows
               PROVE  TypeOK'
  <2>1. CASE Begin(w)
    <3> DEFINE uid == account[job[w].user]
               x == [job[w] EXCEPT !.pc = "delete", !.uid = uid, !.next = 1, !.seen = RowsAbout(uid)]
    <3>1. job' = [job EXCEPT ![w] = x]
      BY <2>1 DEF Begin
    <3>2. uid \in Ids /\ RowsAbout(uid) \in SUBSET RowType /\ 1 \in 0 .. Len(Order) + 1
      <4>1. job[w].user \in Users
        BY <1>0, <2>1 DEF Begin, On, Sound
      <4>2. uid \in Ids
        BY <4>1 DEF TypeOK
      <4>3. RowsAbout(uid) \in SUBSET RowType
        BY <1>0 DEF RowsAbout
      <4>4. 1 \in 0 .. Len(Order) + 1
        BY OrderFacts
      <4> QED BY <4>2, <4>3, <4>4
    <3> HIDE DEF uid
    <3>3. x \in JobType /\ x.doomed = job[w].doomed
      BY <1>0, <3>2 DEF JobType
    <3> HIDE DEF x
    <3> QED BY <1>0, <1>4, <3>1, <3>3
  <2>2. CASE Delete(w)
    <3> DEFINE d == IF job[w].aborted THEN job[w].doomed ELSE job[w].doomed \cup Matching(w)
               x == [job[w] EXCEPT !.next = @ + 1, !.doomed = d]
    <3>1. job' = [job EXCEPT ![w] = x]
      <4> DEFINE a == [job[w] EXCEPT !.next = @ + 1]
      <4>1. Advance(w) = [job EXCEPT ![w] = a]
        BY DEF Advance
      <4>2. Advance(w)[w] = a /\ a.doomed = job[w].doomed
        BY <1>0, <4>1 DEF TypeOK, JobType
      <4>3. x = [a EXCEPT !.doomed = d]
        OBVIOUS
      <4>4. job' = [Advance(w) EXCEPT ![w].doomed = d]
        BY <2>2, <4>2 DEF Delete
      <4> HIDE DEF a, d
      <4> QED BY <4>1, <4>2, <4>3, <4>4 DEF TypeOK
    <3>2. d \subseteq rows /\ job[w].next + 1 \in 0 .. Len(Order) + 1
      BY <1>0, <2>2, OrderFacts DEF Delete, Deleting, Matching, RowsAbout, JobType
    <3>3. d \in SUBSET RowType
      BY <1>0, <3>2
    <3> HIDE DEF d
    <3>4. x \in JobType /\ x.doomed = d
      BY <1>0, <3>2, <3>3 DEF JobType
    <3> HIDE DEF x
    <3> QED BY <1>4, <3>1, <3>2, <3>4
  <2>3. CASE DeleteFails(w)
    <3> DEFINE x == [job[w] EXCEPT !.next = @ + 1, !.aborted = TRUE, !.doomed = {}]
    <3>1. job' = [job EXCEPT ![w] = x]
      BY <1>0, <2>3 DEF DeleteFails, Advance, TypeOK
    <3>2. job[w].next + 1 \in 0 .. Len(Order) + 1
      BY <1>0, <2>3, OrderFacts DEF DeleteFails, Deleting, JobType
    <3>3. x \in JobType /\ x.doomed = {}
      BY <1>0, <3>2 DEF JobType
    <3> HIDE DEF x
    <3> QED BY <1>4, <3>1, <3>3
  <2>4. CASE Tell(w)
    <3> DEFINE x == [job[w] EXCEPT !.pc = "close"]
    <3>1. job' = [job EXCEPT ![w] = x]
      BY <2>4 DEF Tell
    <3>2. x \in JobType /\ x.doomed = job[w].doomed
      BY <1>0 DEF JobType
    <3> HIDE DEF x
    <3> QED BY <1>0, <1>4, <3>1, <3>2
  <2> QED BY <2>1, <2>2, <2>3, <2>4
<1>5. x \in JobType'
  BY <1>3, <1>4
<1> QED BY <1>1, <1>2, <1>4, <1>5, JobType1

LEMMA CommitType == ASSUME IInv, NEW w \in Workers, Commit(w) PROVE TypeOK'
<1>0. /\ job[w] \in JobType /\ serial \in Nat \ {0} /\ asked \in Nat
      /\ asked \in 0 .. MaxUpdates /\ account \in [Users -> Ids] /\ rows \subseteq RowType
      /\ received \in 0 .. MaxUpdates /\ faults \in 0 .. MaxFaults
      /\ \A v \in Workers : job[v].doomed \subseteq rows
  BY BoundsAssumption DEF IInv, TypeOK
<1> DEFINE x == [job[w] EXCEPT !.pc = "tell", !.seen = {}, !.doomed = {}]
<1>1. /\ job' = [job EXCEPT ![w] = x]
      /\ UNCHANGED <<warnings, asked, serial, received, faults>>
  BY DEF Commit
<1>2. x \in JobType /\ x.doomed = {}
  BY <1>0 DEF JobType
<1> HIDE DEF x
<1>3. /\ asked' \in 0 .. MaxUpdates /\ asked <= asked' /\ serial' \in Nat /\ serial <= serial'
      /\ received' \in 0 .. MaxUpdates /\ faults' \in 0 .. MaxFaults /\ asked' \in Nat
      /\ warnings' \in [Users -> SUBSET (1 .. asked')]
  BY <1>0, <1>1 DEF IInv, TypeOK
<1>4. Ids \subseteq Ids' /\ RowType \subseteq RowType' /\ JobType \subseteq JobType' /\ 0 \in Ids
  <2>1. 0 \in Ids
    BY <1>0 DEF Ids
  <2>2. TypeOK
    BY DEF IInv
  <2> QED BY <1>3, <2>1, <2>2, Grow
<1>5. account' \in [Users -> Ids'] /\ rows' \subseteq RowType'
  BY <1>0, <1>4 DEF Commit
<1>6. \A v \in Workers \ {w} : job[v].doomed \subseteq rows'
  BY <1>0 DEF Commit, IInv, Deletions
<1>7. x \in JobType' /\ x.doomed \subseteq rows'
  BY <1>2, <1>4
<1> QED BY <1>1, <1>3, <1>5, <1>6, <1>7, StepType DEF IInv

LEMMA NextType == ASSUME IInv, [Next]_vars PROVE TypeOK'
<1>0. TypeOK /\ Counted /\ serial \in Nat \ {0} /\ faults \in 0 .. MaxFaults
  BY DEF IInv, TypeOK
<1>1. CASE UNCHANGED vars
  BY <1>0, <1>1 DEF vars, TypeOK, JobType, RowType, Ids
<1>2. ASSUME NEW w \in Workers, Receive(w) PROVE TypeOK'
  BY <1>0, <1>2, ReceiveType
<1>3. ASSUME NEW w \in Workers, Start(w) PROVE TypeOK'
  BY <1>0, <1>3, StartType
<1>4. ASSUME NEW w \in Workers, FindOther(w) \/ Insert(w) PROVE TypeOK'
  BY <1>0, <1>4, WriteType
<1>5. ASSUME NEW w \in Workers, Ask(w) \/ Cancel(w) \/ CloseWarning(w) PROVE TypeOK'
  BY <1>0, <1>5, WarningType DEF Cancel, CloseWarning
<1>6. ASSUME NEW w \in Workers, Begin(w) \/ Delete(w) \/ Tell(w) \/ DeleteFails(w) PROVE TypeOK'
  BY <1>0, <1>6, DeletionType
<1>7. ASSUME NEW w \in Workers, Commit(w) PROVE TypeOK'
  BY <1>7, CommitType
<1>8. ASSUME NEW w \in Workers, NotAMember(w) \/ Fail(w) PROVE TypeOK'
  <2>1. /\ serial' \in Nat /\ serial <= serial' /\ faults' \in 0 .. MaxFaults
        /\ job' = [job EXCEPT ![w] = Idle]
        /\ UNCHANGED <<account, rows, warnings, asked, received>>
    BY <1>0, <1>8, BoundsAssumption DEF NotAMember, Fail, Done
  <2> QED BY <1>0, <2>1, EndType
<1> QED BY <1>1, <1>2, <1>3, <1>4, <1>5, <1>6, <1>7, <1>8 DEF Next, Step, Confirm

-----------------------------------------------------------------------------
(* The other conjuncts, one lemma each.                                    *)

Act(w) == Receive(w) \/ Step(w) \/ DeleteFails(w) \/ Fail(w)

\* A step is one worker's.
LEMMA OthersKeep ==
  ASSUME TypeOK, NEW w \in Workers, Act(w), NEW v \in Workers \ {w}
  PROVE  job'[v] = job[v]
<1>1. job \in [Workers -> JobType]
  BY DEF TypeOK
<1> QED
  BY <1>1 DEF Act, Receive, Step, Start, StartKnown, StartNew, StartCommit, FindOther, Insert,
    Ask, Cancel, Close, Confirm, NotAMember, Begin, Delete, Commit, Tell, CloseWarning,
    DeleteFails, Fail, Done, Advance

\* A signup that begins has drawn its id.
LEMMA NewJob ==
  ASSUME TypeOK, NEW w \in Workers, StartNew(w)
  PROVE  \/ job'[w] = Idle
         \/ \E c : job'[w] = [job[w] EXCEPT !.pc = "signup", !.uid = serial, !.code = c]
<1> DEFINE c == IF job[w].other \in Users \ {job[w].user} THEN account[job[w].other] ELSE 0
<1>1. \/ job' = [job EXCEPT ![w] = Idle]
      \/ job' = [job EXCEPT ![w] = [job[w] EXCEPT !.pc = "signup", !.uid = serial, !.code = c]]
  BY DEF StartNew, Done
<1>2. job \in [Workers -> JobType]
  BY DEF TypeOK
<1> HIDE DEF c
<1> QED BY <1>1, <1>2

\* The job a step leaves to its worker.
LEMMA SoundStep == ASSUME IInv, NEW w \in Workers, Act(w) PROVE Sound(job'[w])
<1>0. job \in [Workers -> JobType] /\ job[w] \in JobType /\ Sound(job[w])
  BY DEF IInv, TypeOK, Counted
<1>1. CASE job'[w] = Idle
  BY <1>1 DEF Sound, Idle
<1>2. CASE Receive(w)
  <2>1. PICK u \in Updates : \E m : job'[w] =
            [Idle EXCEPT !.pc = "begin", !.op = u.op, !.user = u.user, !.warning = m,
                         !.other = u.other, !.table = u.table]
    BY <1>0, <1>2 DEF Receive
  <2>2. u.user \in Users /\ (u.op = "write" => u.other \in Users)
    BY UpdatesAssumption DEF UpdateType
  <2> QED BY <2>1, <2>2 DEF Sound, Idle
<1>3. CASE StartNew(w)
  <2>1. job'[w] # Idle => \E c : job'[w] = [job[w] EXCEPT !.pc = "signup", !.uid = serial, !.code = c]
    BY <1>3, NewJob DEF IInv
  <2>2. serial # 0 /\ job[w].op = "start" /\ job[w].pc = "begin"
    BY <1>3 DEF IInv, TypeOK, StartNew, On
  <2> QED BY <1>0, <1>1, <2>1, <2>2 DEF Sound, JobType
<1>4. CASE FindOther(w)
  BY <1>0, <1>1, <1>4 DEF FindOther, On, Done, Sound, JobType
<1>5. CASE Begin(w)
  <2>1. job'[w] = [job[w] EXCEPT !.pc = "delete", !.uid = account[job[w].user], !.next = 1,
                                 !.seen = RowsAbout(account[job[w].user])]
    BY <1>0, <1>5 DEF Begin
  <2> QED BY <1>0, <1>5, <2>1 DEF Begin, On, Sound, JobType, RowsAbout
<1>6. CASE Delete(w)
  <2> DEFINE d == IF job[w].aborted THEN job[w].doomed ELSE job[w].doomed \cup Matching(w)
  <2>1. job'[w] = [job[w] EXCEPT !.next = @ + 1, !.doomed = d]
    BY <1>0, <1>6 DEF Delete, Advance, JobType
  <2>2. \A r \in d : r \in job[w].doomed \/ job[w].uid \in r.of
    BY DEF Matching, RowsAbout
  <2>3. job[w].next + 1 # 0 /\ job[w].pc = "delete"
    BY <1>0, <1>6 DEF Delete, Deleting, JobType
  <2> HIDE DEF d
  <2>4. /\ job'[w].pc = "delete" /\ job'[w].op = job[w].op /\ job'[w].user = job[w].user
        /\ job'[w].uid = job[w].uid /\ job'[w].seen = job[w].seen /\ job'[w].doomed = d
        /\ job'[w].next = job[w].next + 1
    BY <1>0, <2>1, <2>3 DEF JobType
  <2> QED BY <1>0, <2>2, <2>3, <2>4 DEF Sound
<1>7. CASE DeleteFails(w)
  <2>1. job'[w] = [job[w] EXCEPT !.next = @ + 1, !.aborted = TRUE, !.doomed = {}]
    BY <1>0, <1>7 DEF DeleteFails, Advance
  <2>2. job[w].next + 1 # 0 /\ job[w].pc = "delete"
    BY <1>0, <1>7 DEF DeleteFails, Deleting, JobType
  <2>3. /\ job'[w].pc = "delete" /\ job'[w].op = job[w].op /\ job'[w].user = job[w].user
        /\ job'[w].uid = job[w].uid /\ job'[w].seen = job[w].seen /\ job'[w].doomed = {}
        /\ job'[w].next = job[w].next + 1
    BY <1>0, <2>1, <2>2 DEF JobType
  <2> QED BY <1>0, <2>2, <2>3 DEF Sound
<1>8. CASE Commit(w)
  <2>1. job'[w] = [job[w] EXCEPT !.pc = "tell", !.seen = {}, !.doomed = {}]
    BY <1>0, <1>8 DEF Commit
  <2> QED BY <1>0, <1>8, <2>1 DEF Commit, Sound, JobType
<1>9. CASE Tell(w)
  <2>1. job'[w] = [job[w] EXCEPT !.pc = "close"]
    BY <1>0, <1>9 DEF Tell
  <2> QED BY <1>0, <1>9, <2>1 DEF Tell, On, Sound, JobType
<1>10. ASSUME StartKnown(w) \/ StartCommit(w) \/ Insert(w) \/ Ask(w) \/ Cancel(w)
                \/ NotAMember(w) \/ CloseWarning(w) \/ Fail(w)
       PROVE  job'[w] = Idle
  BY <1>0, <1>10 DEF StartKnown, StartCommit, Insert, Ask, Cancel, NotAMember, CloseWarning,
    Close, Fail, Done
<1> QED BY <1>1, <1>2, <1>3, <1>4, <1>5, <1>6, <1>7, <1>8, <1>9, <1>10
  DEF Act, Step, Start, Confirm

LEMMA CountedStep == ASSUME IInv, NEW w \in Workers, Act(w) PROVE Counted'
<1>0. TypeOK /\ job \in [Workers -> JobType] /\ asked \in Nat /\ received \in Nat
  BY BoundsAssumption DEF IInv, TypeOK
<1>1. \A v \in Workers : Sound(job'[v])
  BY <1>0, SoundStep, OthersKeep DEF IInv, Counted
<1>2. IsFiniteSet(Asking) /\ Cardinality(Asking) \in Nat /\ asked + Cardinality(Asking) <= received
  BY FS_CardinalityType DEF IInv, Counted
<1>3. \A v \in Workers \ {w} : v \in Asking' <=> v \in Asking
  BY <1>0, OthersKeep DEF Asking, On
<1>4. Asking' \subseteq Workers /\ Asking \subseteq Workers
  BY DEF Asking
<1>5. CASE Receive(w)
  <2>1. asked' = asked /\ received' = received + 1
    BY <1>5 DEF Receive
  <2>2. Asking' \in SUBSET (Asking \cup {w})
    BY <1>3, <1>4
  <2>3. IsFiniteSet(Asking \cup {w}) /\ Cardinality(Asking \cup {w}) <= Cardinality(Asking) + 1
    <3>1. /\ IsFiniteSet(Asking \cup {w})
          /\ Cardinality(Asking \cup {w}) =
               IF w \in Asking THEN Cardinality(Asking) ELSE Cardinality(Asking) + 1
      BY <1>2, FS_AddElement
    <3> QED BY <1>2, <3>1
  <2>4. /\ IsFiniteSet(Asking') /\ Cardinality(Asking') <= Cardinality(Asking \cup {w})
    BY <2>2, <2>3, FS_Subset
  <2>5. Cardinality(Asking') \in Nat /\ Cardinality(Asking \cup {w}) \in Nat
    BY <2>3, <2>4, FS_CardinalityType
  <2>6. asked' + Cardinality(Asking') <= received'
    BY <1>0, <1>2, <2>1, <2>3, <2>4, <2>5
  <2> QED BY <1>1, <2>4, <2>6 DEF Counted
<1>6. CASE ~Receive(w)
  <2>1. received' = received
    BY <1>6 DEF Act, Step, Start, StartKnown, StartNew, StartCommit, FindOther, Insert,
      Ask, Cancel, Close, Confirm, NotAMember, Begin, Delete, Commit, Tell, CloseWarning,
      DeleteFails, Fail
  <2>2. w \notin Asking'
    BY <1>0, <1>6 DEF Act, Step, Start, StartKnown, StartNew, StartCommit, FindOther, Insert,
      Ask, Cancel, Close, Confirm, NotAMember, Begin, Delete, Commit, Tell, CloseWarning,
      DeleteFails, Fail, Done, Asking, On, Advance, Deleting, Idle, JobType
  <2>3. Asking' = Asking \ {w}
    BY <1>3, <1>4, <2>2
  <2>4. /\ IsFiniteSet(Asking')
        /\ Cardinality(Asking') = IF w \in Asking THEN Cardinality(Asking) - 1 ELSE Cardinality(Asking)
    BY <1>2, <2>3, FS_RemoveElement
  <2>5. CASE Ask(w)
    <3>1. asked' = asked + 1 /\ w \in Asking
      BY <2>5 DEF Ask, Asking
    <3>2. asked' + Cardinality(Asking') <= received'
      BY <1>0, <1>2, <2>1, <2>4, <3>1
    <3> QED BY <1>1, <2>4, <3>2 DEF Counted
  <2>6. CASE ~Ask(w)
    <3>1. asked' = asked
      BY <1>6, <2>6 DEF Act, Step, Start, StartKnown, StartNew, StartCommit, FindOther, Insert,
        Cancel, Close, Confirm, NotAMember, Begin, Delete, Commit, Tell, CloseWarning,
        DeleteFails, Fail
    <3>2. asked' + Cardinality(Asking') <= received'
      BY <1>0, <1>2, <2>1, <2>4, <3>1
    <3> QED BY <1>1, <2>4, <3>2 DEF Counted
  <2> QED BY <2>5, <2>6
<1> QED BY <1>5, <1>6

\* The steps that write accounts or rows.
LEMMA Readers ==
  ASSUME NEW w \in Workers, Act(w), ~StartCommit(w), ~Commit(w)
  PROVE  account' = account /\ (~Insert(w) => rows' = rows)
BY DEF Act, Receive, Step, Start, StartKnown, StartNew, FindOther, Insert, Ask, Cancel, Close,
  Confirm, NotAMember, Begin, Delete, Tell, CloseWarning, DeleteFails, Fail

\* Only StartNew opens a signup.
LEMMA Opening ==
  ASSUME TypeOK, NEW w \in Workers, Act(w), ~StartNew(w)
  PROVE  job'[w].pc # "signup"
<1>1. job \in [Workers -> JobType]
  BY DEF TypeOK
<1>2. CASE Receive(w)
  BY <1>1, <1>2 DEF Receive, Idle
<1>3. CASE StartKnown(w) \/ StartCommit(w) \/ FindOther(w) \/ Insert(w) \/ Ask(w) \/ Cancel(w)
  BY <1>1, <1>3 DEF StartKnown, StartCommit, FindOther, Insert, Ask, Cancel, Close, Done, Idle,
    JobType
<1>4. CASE NotAMember(w) \/ Begin(w) \/ Commit(w) \/ Tell(w) \/ CloseWarning(w) \/ Fail(w)
  BY <1>1, <1>4 DEF NotAMember, Begin, Commit, Tell, CloseWarning, Close, Fail, Done, Idle, JobType
<1>5. CASE Delete(w) \/ DeleteFails(w)
  <2>1. job'[w].pc = job[w].pc /\ job[w].pc = "delete"
    <3>1. CASE Delete(w)
      BY <1>1, <3>1 DEF Delete, Deleting, Advance, JobType
    <3>2. CASE DeleteFails(w)
      BY <1>1, <3>2 DEF DeleteFails, Deleting, Advance, JobType
    <3> QED BY <1>5, <3>1, <3>2
  <2> QED BY <2>1
<1> QED BY <1>2, <1>3, <1>4, <1>5 DEF Act, Step, Start, Confirm

LEMMA SignupsStep == ASSUME IInv, NEW w \in Workers, Act(w) PROVE Signups'
<1>0. /\ job \in [Workers -> JobType] /\ account \in [Users -> Ids] /\ serial \in Nat \ {0}
      /\ \A v \in Workers : Sound(job[v])
      /\ \A v \in Workers \ {w} : job'[v] = job[v]
  BY OthersKeep DEF IInv, TypeOK, Counted
<1>1. \A v \in Workers : Signing(v) => job[v].user \in Users /\ job[v].uid # 0 /\ job[v].op = "start"
  BY <1>0 DEF Signing, Sound
<1>2. CASE StartNew(w) /\ job'[w].pc = "signup"
  <2>1. account' = account
    BY <1>2 DEF StartNew
  <2>2. job'[w].uid = serial /\ job'[w].user = job[w].user
    <3>1. job[w] \in JobType /\ Idle.pc = "idle"
      BY <1>0 DEF Idle
    <3> QED BY <1>2, <3>1, NewJob DEF IInv, JobType
  <2>3. account[job[w].user] = 0 /\ job[w].user \in Users
    BY <1>0, <1>2 DEF StartNew, On, Sound
  <2>4. \A u \in Users : account[u] # serial
    <3>1. \A i \in Ids : i # serial
      BY <1>0 DEF Ids
    <3> QED BY <1>0, <3>1
  <2>5. \A v \in Workers \ {w} : Signing(v) => job[v].user # job[w].user /\ job[v].uid # serial
    <3>1. \A v \in Workers : job[v].uid # serial
      BY <1>0 DEF JobType, Ids
    <3> QED BY <1>1, <1>2, <3>1 DEF StartNew, OpenSignup, On, Signing
  <2> QED BY <1>0, <2>1, <2>2, <2>3, <2>4, <2>5 DEF IInv, Signups, Signing
<1>3. CASE StartCommit(w)
  <2>1. Signing(w) /\ account' = [account EXCEPT ![job[w].user] = job[w].uid]
    BY <1>3 DEF StartCommit, On, Signing
  <2>2. job'[w].pc # "signup"
    BY <1>0, <1>3 DEF StartCommit, Done, Idle
  <2> QED BY <1>0, <1>1, <2>1, <2>2 DEF IInv, Signups, Signing
<1>4. CASE Commit(w)
  <2>1. \A u \in Users : account'[u] \in {account[u], 0}
    BY <1>0, <1>4 DEF Commit
  <2>2. job'[w].pc # "signup"
    BY <1>0, <1>4 DEF Commit
  <2> QED BY <1>0, <1>1, <2>1, <2>2 DEF IInv, Signups, Signing
<1>5. CASE ~StartCommit(w) /\ ~Commit(w) /\ job'[w].pc # "signup"
  <2>1. account' = account
    BY <1>5, Readers
  <2> QED BY <1>0, <1>5, <2>1 DEF IInv, Signups, Signing
<1>6. StartNew(w) => ~StartCommit(w) /\ ~Commit(w)
  BY DEF StartNew, StartCommit, Commit, On
<1> QED BY <1>2, <1>3, <1>4, <1>5, <1>6, Opening DEF IInv

\* New rows have new ids: no deletion has seen them.
LEMMA RowsKept ==
  ASSUME IInv, NEW w \in Workers, Act(w), NEW v \in Workers
  PROVE  job[v].seen \cap rows' \subseteq rows
<1>1. \A r \in job[v].seen : r.id # serial
  <2>1. job[v].seen \in SUBSET RowType /\ serial \in Nat \ {0}
    BY DEF IInv, TypeOK, JobType
  <2> QED BY <2>1 DEF RowType, Ids
<1>2. \A t, of : Row(serial, t, of).id = serial
  BY DEF Row
<1>3. CASE StartCommit(w)
  BY <1>1, <1>2, <1>3 DEF StartCommit
<1>4. CASE Insert(w)
  BY <1>1, <1>2, <1>4 DEF Insert
<1>5. CASE Commit(w)
  BY <1>5 DEF Commit
<1>6. CASE ~StartCommit(w) /\ ~Insert(w) /\ ~Commit(w)
  BY <1>6, Readers
<1> QED BY <1>3, <1>4, <1>5, <1>6

\* Nothing else leaves a worker in a deletion.
LEMMA DeletingAct ==
  ASSUME TypeOK, NEW w \in Workers, Act(w), job'[w].pc = "delete"
  PROVE  Begin(w) \/ Delete(w) \/ DeleteFails(w)
<1>0. job \in [Workers -> JobType] /\ job[w] \in JobType
  BY DEF TypeOK
<1>1. CASE Receive(w)
  BY <1>0, <1>1 DEF Receive, Idle
<1>2. CASE StartNew(w)
  <2>1. Idle.pc = "idle" /\ TypeOK
    BY DEF Idle, IInv
  <2> QED BY <1>0, <1>2, <2>1, NewJob DEF JobType
<1>3. CASE StartKnown(w) \/ StartCommit(w) \/ FindOther(w) \/ Insert(w) \/ Ask(w) \/ Cancel(w)
  BY <1>0, <1>3 DEF StartKnown, StartCommit, FindOther, Insert, Ask, Cancel, Close, Done, Idle,
    JobType
<1>4. CASE NotAMember(w) \/ Commit(w) \/ Tell(w) \/ CloseWarning(w) \/ Fail(w)
  BY <1>0, <1>4 DEF NotAMember, Commit, Tell, CloseWarning, Close, Fail, Done, Idle, JobType
<1> QED BY <1>1, <1>2, <1>3, <1>4 DEF Act, Step, Start, Confirm

LEMMA DeletionsStep == ASSUME IInv, NEW w \in Workers, Act(w) PROVE Deletions'
<1>0. /\ job \in [Workers -> JobType] /\ job[w] \in JobType /\ rows \subseteq RowType
      /\ \A v \in Workers : Sound(job[v])
      /\ \A v \in Workers \ {w} : job'[v] = job[v]
      /\ Sound(job'[w])
  BY OthersKeep, SoundStep DEF IInv, TypeOK, Counted
<1>1. \A v \in Workers \ {w} : ~job'[v].aborted =>
        \A r \in job'[v].seen \cap rows' : r \in job'[v].doomed \/ IsAhead(job'[v], r)
  BY <1>0, RowsKept DEF IInv, Deletions
<1>2. SUFFICES /\ \A v \in Workers \ {w} : job'[w].doomed \cap job[v].doomed = {}
               /\ ~job'[w].aborted =>
                    \A r \in job'[w].seen \cap rows' : r \in job'[w].doomed \/ IsAhead(job'[w], r)
  BY <1>0, <1>1 DEF IInv, Deletions
<1>3. CASE job'[w].pc # "delete"
  BY <1>0, <1>3 DEF Sound
<1>4. CASE Begin(w)
  <2>1. job'[w] = [job[w] EXCEPT !.pc = "delete", !.uid = account[job[w].user], !.next = 1,
                                 !.seen = RowsAbout(account[job[w].user])]
    BY <1>0, <1>4 DEF Begin
  <2>2. job[w].doomed = {}
    BY <1>0, <1>4 DEF Begin, On, Sound
  <2>3. job'[w].doomed = {} /\ job'[w].seen \subseteq rows /\ job'[w].next = 1
    BY <1>0, <2>1, <2>2 DEF JobType, RowsAbout
  <2>4. \A r \in rows : IsAhead(job'[w], r)
    BY <1>0, <2>3, OrderFacts DEF RowType, IsAhead
  <2> QED BY <2>3, <2>4
<1>5. CASE Delete(w)
  <2> DEFINE d == IF job[w].aborted THEN job[w].doomed ELSE job[w].doomed \cup Matching(w)
  <2>1. job'[w] = [job[w] EXCEPT !.next = @ + 1, !.doomed = d]
    BY <1>0, <1>5 DEF Delete, Advance, JobType
  <2>2. \A v \in Workers \ {w} : d \cap job[v].doomed = {}
    BY <1>5 DEF IInv, Deletions, Delete, Locked
  <2>3. ~job[w].aborted => d = job[w].doomed \cup Matching(w)
    OBVIOUS
  <2> HIDE DEF d
  <2>4. /\ job'[w].uid = job[w].uid /\ job'[w].seen = job[w].seen /\ job'[w].doomed = d
        /\ job'[w].next = job[w].next + 1 /\ job'[w].aborted = job[w].aborted
    BY <1>0, <2>1 DEF JobType
  <2>5. rows' = rows
    BY <1>5 DEF Delete
  <2>6. ASSUME ~job[w].aborted, NEW r \in job[w].seen \cap rows
        PROVE  r \in d \/ IsAhead(job'[w], r)
    <3>1. r \in job[w].doomed \/ IsAhead(job[w], r)
      BY <2>6 DEF IInv, Deletions
    <3>2. CASE IsAhead(job[w], r)
      <4>1. PICK i \in job[w].next .. Len(Order) : r.table = Order[i]
        BY <3>2 DEF IsAhead
      <4>2. CASE i = job[w].next
        <5>1. job[w].uid \in r.of
          BY <1>0 DEF Sound
        <5>2. r \in Matching(w)
          BY <4>1, <4>2, <5>1 DEF Matching, RowsAbout
        <5> QED BY <2>3, <2>6, <5>2
      <4>3. CASE i # job[w].next
        <5>1. i \in job'[w].next .. Len(Order)
          BY <1>0, <2>4, <4>3, OrderFacts DEF JobType
        <5> QED BY <4>1, <5>1 DEF IsAhead
      <4> QED BY <4>2, <4>3
    <3> QED BY <2>3, <2>6, <3>1, <3>2
  <2> QED BY <2>2, <2>4, <2>5, <2>6
<1>6. CASE DeleteFails(w)
  <2>1. job'[w] = [job[w] EXCEPT !.next = @ + 1, !.aborted = TRUE, !.doomed = {}]
    BY <1>0, <1>6 DEF DeleteFails, Advance
  <2>2. job'[w].aborted = TRUE /\ job'[w].doomed = {}
    BY <1>0, <2>1 DEF JobType
  <2> QED BY <2>2
<1>7. job'[w].pc = "delete" => Begin(w) \/ Delete(w) \/ DeleteFails(w)
  BY DeletingAct DEF IInv
<1> QED BY <1>3, <1>4, <1>5, <1>6, <1>7

LEMMA SettingsStep == ASSUME IInv, NEW w \in Workers, Act(w) PROVE MemberHasSettings'
<1>0. /\ job[w] \in JobType /\ Sound(job[w]) /\ account \in [Users -> Ids]
  BY DEF IInv, TypeOK, Counted
<1>1. CASE StartCommit(w)
  <2> DEFINE y == job[w]
             s == Row(serial, "usersettings", {y.uid})
  <2>1. s \in rows' /\ rows \subseteq rows' /\ account' = [account EXCEPT ![y.user] = y.uid]
    BY <1>1 DEF StartCommit
  <2>2. s.table = "usersettings" /\ s.of = {y.uid}
    BY DEF Row
  <2> HIDE DEF s
  <2> QED BY <1>0, <2>1, <2>2 DEF IInv, MemberHasSettings
<1>2. CASE Commit(w)
  <2>1. CASE job[w].aborted
    BY <1>2, <2>1 DEF Commit, IInv, MemberHasSettings
  <2>2. CASE ~job[w].aborted
    <3>1. /\ rows' = rows \ job[w].doomed
          /\ account' = [u \in Users |-> IF account[u] = job[w].uid THEN 0 ELSE account[u]]
      BY <1>2, <2>2 DEF Commit
    <3>2. \A r \in job[w].doomed : job[w].uid \in r.of
      BY <1>0 DEF Sound
    <3>3. ASSUME NEW u \in Users, account'[u] # 0
          PROVE  \E r \in rows' : r.table = "usersettings" /\ r.of = {account'[u]}
      <4>1. account'[u] = account[u] /\ account[u] # job[w].uid
        BY <3>1, <3>3
      <4>2. PICK r \in rows : r.table = "usersettings" /\ r.of = {account[u]}
        BY <3>3, <4>1 DEF IInv, MemberHasSettings
      <4>3. r \notin job[w].doomed
        BY <3>2, <4>1, <4>2
      <4> QED BY <3>1, <4>1, <4>2, <4>3
    <3> QED BY <3>3 DEF MemberHasSettings
  <2> QED BY <2>1, <2>2
<1>3. CASE ~StartCommit(w) /\ ~Commit(w)
  <2>1. account' = account /\ rows \subseteq rows'
    BY <1>3, Readers DEF Insert
  <2> QED BY <2>1 DEF IInv, MemberHasSettings
<1> QED BY <1>1, <1>2, <1>3

LEMMA InitInv == Init => IInv
<1> SUFFICES ASSUME Init PROVE IInv
  OBVIOUS
<1>1. \A w \in Workers : job[w] = Idle
  BY DEF Init
<1>2. Signups /\ Deletions
  BY <1>1 DEF Signups, Signing, Deletions, Idle
<1>3. MemberHasSettings
  <2>1. ASSUME NEW u \in Users, account[u] # 0
        PROVE  \E r \in rows : r.table = "usersettings" /\ r.of = {account[u]}
    <3>1. Row(account[u], "usersettings", {account[u]}) \in rows
      BY <2>1 DEF Init
    <3> QED BY <3>1 DEF Row
  <2> QED BY <2>1 DEF MemberHasSettings
<1> QED BY <1>2, <1>3, InitType DEF IInv

LEMMA Invariant == Spec => []IInv
<1>1. ASSUME IInv, [Next]_vars PROVE IInv'
  <2>1. TypeOK'
    BY <1>1, NextType
  <2>2. CASE UNCHANGED vars
    BY <1>1, <2>1, <2>2
    DEF IInv, vars, Counted, Asking, On, Signups, Signing, Deletions, MemberHasSettings
  <2>3. ASSUME NEW w \in Workers, Act(w) PROVE IInv'
    BY <1>1, <2>1, <2>3, CountedStep, SignupsStep, DeletionsStep, SettingsStep DEF IInv
  <2> QED BY <1>1, <2>2, <2>3 DEF Next, Act
<1> QED BY <1>1, InitInv, PTL DEF Spec

\* Every variable keeps its type, and what an open deletion has taken is still there for
\* everybody else: no other deletion slips past its locks (deleteData.go:159-185).
THEOREM TypeCorrect == Spec => []TypeOK
<1>1. IInv => TypeOK
  BY DEF IInv
<1> QED BY <1>1, Invariant, PTL

\* No interleaving and no failure of signups and deletions, by any number of workers,
\* leaves a member without settings (deleteData.go:159-189).
THEOREM SettingsStay == Spec => []MemberHasSettings
<1>1. IInv => MemberHasSettings
  BY DEF IInv
<1> QED BY <1>1, Invariant, PTL

-----------------------------------------------------------------------------
(* The refinement: each kind of step is a step of Erasure or a stutter.    *)

\* The image of the step that worker w takes.
LEMMA Image ==
  ASSUME TypeOK, NEW w \in Workers, Act(w)
  PROVE  /\ Erasing' = [Erasing EXCEPT ![w] = IF job'[w].pc = "delete" THEN job'[w].uid ELSE 0]
         /\ Seen' = [Seen EXCEPT ![w] = job'[w].seen]
BY OthersKeep DEF Erasing, Seen

\* A step that neither begins nor ends a deletion.
LEMMA SameDeletions ==
  ASSUME TypeOK, NEW w \in Workers, Act(w),
         \/ job[w].pc = "delete" /\ job'[w].pc = "delete" /\ job'[w].uid = job[w].uid
         \/ job[w].pc # "delete" /\ job'[w].pc # "delete",
         job'[w].seen = job[w].seen
  PROVE  Erasing' = Erasing /\ Seen' = Seen
BY OthersKeep DEF Erasing, Seen

LEMMA JoinMaps ==
  ASSUME IInv, IInv', AccountIds = Nat \ {0}, NEW w \in Workers, StartCommit(w)
  PROVE  Promise!Next
<1> DEFINE y == job[w]
<1>0. /\ y \in JobType /\ Sound(y) /\ y.pc = "signup" /\ y.user \in Users
      /\ account \in [Users -> Ids] /\ serial \in Nat \ {0} /\ TypeOK /\ Act(w)
  BY DEF IInv, TypeOK, Counted, StartCommit, On, Sound, Act, Step, Start
<1>1. y.uid \in AccountIds
  BY <1>0 DEF Sound, JobType, Ids
<1>2. y.uid \notin Members /\ account[y.user] = 0
  BY <1>0 DEF IInv, Signups, Signing, Members
<1>3. account' = [account EXCEPT ![y.user] = y.uid]
  BY DEF StartCommit
<1>4. Members' = Members \cup {y.uid}
  BY <1>0, <1>2, <1>3 DEF Members, Sound
<1>5. rows \subseteq rows' /\ \A r \in rows' \ rows : y.uid \in r.of
  BY DEF StartCommit, Row
<1>6. Erasing' = Erasing /\ Seen' = Seen
  <2>1. job'[w] = Idle
    BY <1>0 DEF StartCommit, Done, TypeOK
  <2>2. y.seen = {} /\ Idle.seen = {} /\ Idle.pc = "idle"
    BY <1>0 DEF Sound, Idle
  <2> QED BY <1>0, <2>1, <2>2, SameDeletions
<1>7. Promise!Join(y.uid)
  BY <1>2, <1>4, <1>5, <1>6 DEF Promise!Join
<1> QED BY <1>1, <1>7 DEF Promise!Next

LEMMA WriteMaps ==
  ASSUME IInv, NEW w \in Workers, Insert(w)
  PROVE  Promise!Next
<1>1. /\ TypeOK /\ Act(w) /\ Sound(job[w]) /\ job[w].pc = "write" /\ job'[w] = Idle
      /\ account' = account /\ rows \subseteq rows'
  BY DEF IInv, TypeOK, Counted, Insert, On, Done, Act, Step
<1>2. Erasing' = Erasing /\ Seen' = Seen
  <2>1. job[w].seen = {} /\ Idle.seen = {} /\ Idle.pc = "idle"
    BY <1>1 DEF Sound, Idle
  <2> QED BY <1>1, <2>1, SameDeletions
<1>3. Promise!Write
  BY <1>1, <1>2 DEF Promise!Write, Members
<1> QED BY <1>3 DEF Promise!Next

LEMMA BeginMaps ==
  ASSUME IInv, AccountIds = Nat \ {0}, NEW w \in Workers, Begin(w)
  PROVE  Promise!Next
<1> DEFINE a == account[job[w].user]
<1>0. /\ job \in [Workers -> JobType] /\ account \in [Users -> Ids] /\ serial \in Nat \ {0}
      /\ TypeOK /\ Act(w) /\ Sound(job[w]) /\ job[w].pc = "begin" /\ job[w].user \in Users
  BY DEF IInv, TypeOK, Counted, Begin, On, Sound, Act, Step, Confirm
<1>1. a \in Members /\ a \in AccountIds
  BY <1>0 DEF Begin, Members, Ids
<1>2. job'[w].pc = "delete" /\ job'[w].uid = a /\ job'[w].seen = RowsAbout(a)
  <2>1. job'[w] = [job[w] EXCEPT !.pc = "delete", !.uid = a, !.next = 1, !.seen = RowsAbout(a)]
    BY <1>0 DEF Begin
  <2> HIDE DEF a
  <2> QED BY <1>0, <2>1 DEF JobType
<1> HIDE DEF a
<1>3. Erasing' = [Erasing EXCEPT ![w] = a] /\ Seen' = [Seen EXCEPT ![w] = RowsAbout(a)]
  BY <1>0, <1>2, Image
<1>4. Erasing[w] = 0 /\ UNCHANGED <<Members, rows>>
  BY <1>0 DEF Begin, Erasing, Members
<1>5. Promise!Begin(w, a)
  BY <1>1, <1>3, <1>4 DEF Promise!Begin, Promise!About, RowsAbout
<1> QED BY <1>1, <1>5 DEF Promise!Next

\* A deletion that ends, one way or the other.
LEMMA EndedMaps ==
  ASSUME IInv, NEW w \in Workers, Act(w),
         job[w].pc = "delete", job'[w].pc # "delete", job'[w].seen = {}
  PROVE  /\ Erasing[w] = job[w].uid /\ Seen[w] = job[w].seen
         /\ Promise!Ended(w)
<1>1. TypeOK /\ Sound(job[w])
  BY DEF IInv, Counted
<1>2. Erasing' = [Erasing EXCEPT ![w] = 0] /\ Seen' = [Seen EXCEPT ![w] = {}]
  BY <1>1, Image
<1>3. Erasing[w] = job[w].uid /\ Seen[w] = job[w].seen /\ job[w].uid # 0
  BY <1>1 DEF Erasing, Seen, Sound
<1> QED BY <1>2, <1>3 DEF Promise!Ended

LEMMA CommitMaps ==
  ASSUME IInv, NEW w \in Workers, Commit(w)
  PROVE  Promise!Next
<1>0. /\ job[w] \in JobType /\ Sound(job[w]) /\ job[w].pc = "delete" /\ Act(w)
      /\ job \in [Workers -> JobType]
  BY DEF IInv, TypeOK, Counted, Commit, Act, Step, Confirm
<1>1. job'[w] = [job[w] EXCEPT !.pc = "tell", !.seen = {}, !.doomed = {}]
  BY <1>0 DEF Commit
<1>2. job'[w].pc = "tell" /\ job'[w].seen = {}
  BY <1>0, <1>1 DEF JobType
<1>3. Erasing[w] = job[w].uid /\ Seen[w] = job[w].seen /\ Promise!Ended(w)
  BY <1>0, <1>2, EndedMaps
<1>4. CASE job[w].aborted
  <2>1. UNCHANGED <<Members, rows>>
    BY <1>4 DEF Commit, Members
  <2>2. Promise!GiveUp(w)
    BY <1>3, <2>1 DEF Promise!GiveUp
  <2> QED BY <2>2 DEF Promise!Next
<1>5. CASE ~job[w].aborted
  <2>1. /\ rows' = rows \ job[w].doomed
        /\ account' = [u \in Users |-> IF account[u] = job[w].uid THEN 0 ELSE account[u]]
    BY <1>5 DEF Commit
  <2>2. Members' = Members \ {Erasing[w]}
    BY <1>3, <2>1 DEF Members
  <2>3. rows' \subseteq rows \ Seen[w]
    <3>1. \A r \in job[w].seen : ~IsAhead(job[w], r)
      <4>1. job[w].next > Len(Order) /\ job[w].next \in Nat
        BY <1>0, OrderFacts DEF Commit, JobType
      <4>2. job[w].next .. Len(Order) = {}
        BY <4>1, OrderFacts
      <4> QED BY <4>2 DEF IsAhead
    <3> QED BY <1>3, <1>5, <2>1, <3>1 DEF IInv, Deletions
  <2>4. rows \ rows' \subseteq {r \in rows : Erasing[w] \in r.of}
    BY <1>0, <1>3, <2>1 DEF Sound
  <2>5. Promise!Erase(w)
    BY <1>3, <2>2, <2>3, <2>4 DEF Promise!Erase, Promise!About
  <2> QED BY <2>5 DEF Promise!Next
<1> QED BY <1>4, <1>5

LEMMA FailMaps ==
  ASSUME IInv, NEW w \in Workers, Fail(w)
  PROVE  [Promise!Next]_(Promise!vars)
<1>0. /\ Sound(job[w]) /\ Act(w) /\ TypeOK /\ job'[w] = Idle /\ account' = account /\ rows' = rows
  BY DEF IInv, TypeOK, Counted, Fail, Done, Act
<1>1. Idle.pc = "idle" /\ Idle.seen = {}
  BY DEF Idle
<1>2. CASE job[w].pc = "delete"
  <2>1. Promise!Ended(w)
    BY <1>0, <1>1, <1>2, EndedMaps
  <2>2. Promise!GiveUp(w)
    BY <1>0, <2>1 DEF Promise!GiveUp, Members
  <2> QED BY <2>2 DEF Promise!Next
<1>3. CASE job[w].pc # "delete"
  <2>1. job[w].seen = {}
    BY <1>0, <1>3 DEF Sound
  <2>2. Erasing' = Erasing /\ Seen' = Seen
    BY <1>0, <1>1, <1>3, <2>1, SameDeletions
  <2> QED BY <1>0, <2>2 DEF Promise!vars, Members
<1> QED BY <1>2, <1>3

\* All other steps.
LEMMA QuietMaps ==
  ASSUME IInv, NEW w \in Workers, Act(w),
         ~StartCommit(w), ~Insert(w), ~Begin(w), ~Commit(w), ~Fail(w)
  PROVE  UNCHANGED Promise!vars
<1>0. /\ Sound(job[w]) /\ Sound(job'[w]) /\ TypeOK /\ account' = account /\ rows' = rows
      /\ job \in [Workers -> JobType]
  BY SoundStep, Readers DEF IInv, Counted, TypeOK
<1>1. CASE Delete(w) \/ DeleteFails(w)
  <2>1. /\ job[w].pc = "delete" /\ job'[w].pc = "delete"
        /\ job'[w].uid = job[w].uid /\ job'[w].seen = job[w].seen
    <3>1. CASE Delete(w)
      BY <1>0, <3>1 DEF Delete, Deleting, Advance, JobType
    <3>2. CASE DeleteFails(w)
      BY <1>0, <3>2 DEF DeleteFails, Deleting, Advance, JobType
    <3> QED BY <1>1, <3>1, <3>2
  <2>2. Erasing' = Erasing /\ Seen' = Seen
    BY <1>0, <2>1, SameDeletions
  <2> QED BY <1>0, <2>2 DEF Promise!vars, Members
<1>2. CASE ~Delete(w) /\ ~DeleteFails(w)
  <2>1. job[w].pc # "delete"
    <3>1. CASE Receive(w)
      BY <3>1 DEF Receive, Idle
    <3>2. CASE ~Receive(w)
      BY <1>2, <3>2 DEF Act, Step, Start, StartKnown, StartNew, FindOther, Ask, Cancel,
        Confirm, NotAMember, Tell, CloseWarning, On
    <3> QED BY <3>1, <3>2
  <2>2. job'[w].pc # "delete"
    BY <1>2, DeletingAct DEF IInv
  <2>3. job[w].seen = {} /\ job'[w].seen = {}
    BY <1>0, <2>1, <2>2 DEF Sound
  <2>4. Erasing' = Erasing /\ Seen' = Seen
    BY <1>0, <2>1, <2>2, <2>3, SameDeletions
  <2> QED BY <1>0, <2>4 DEF Promise!vars, Members
<1> QED BY <1>1, <1>2

LEMMA InitMaps ==
  ASSUME AccountIds = Nat \ {0}, Init
  PROVE  Promise!Init
<1>1. Members \subseteq AccountIds
  BY AccountAssumption DEF Init, Members
<1>2. \A r \in rows : r.of \subseteq Members
  BY DEF Init, Members, Row
<1>3. Erasing = [w \in Workers |-> 0] /\ Seen = [w \in Workers |-> {}]
  BY DEF Init, Erasing, Seen, Idle
<1> QED BY <1>1, <1>2, <1>3 DEF Promise!Init

\* The deletion of deleteData.go:102-192 implements what Erasure promises, for any number
\* of deletions at once and beside any number of signups and other writers; account ids
\* are any positive numbers.
THEOREM Refinement ==
  ASSUME AccountIds = Nat \ {0}
  PROVE  Spec => ImplementsErasure
<1>1. Init => Promise!Init
  BY InitMaps
<1>2. ASSUME IInv, IInv', [Next]_vars PROVE [Promise!Next]_(Promise!vars)
  <2>1. CASE UNCHANGED vars
    BY <2>1 DEF vars, Promise!vars, Members, Erasing, Seen
  <2>2. ASSUME NEW w \in Workers, Act(w) PROVE [Promise!Next]_(Promise!vars)
    BY <1>2, <2>2, JoinMaps, WriteMaps, BeginMaps, CommitMaps, FailMaps, QuietMaps
  <2> QED BY <1>2, <2>1, <2>2 DEF Next, Act
<1> QED BY <1>1, <1>2, Invariant, PTL DEF Spec, ImplementsErasure, Promise!Spec
===============================================================================
