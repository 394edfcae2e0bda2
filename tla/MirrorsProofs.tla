----------------------------- MODULE MirrorsProofs -----------------------------
(***************************************************************************)
(* Theorems about Mirrors for any users, workers, limit and bounds, checked*)
(* by TLAPS.  The first holds for any routes; the others for routes that   *)
(* give each user's updates to one worker.                                 *)
(***************************************************************************)
EXTENDS Mirrors, FiniteSetTheorems, TLAPS

-----------------------------------------------------------------------------
(* Types.                                                                  *)

\* A busy worker handles an update that was routed to it.
Routed == \A w \in Workers : job[w] # Idle => <<job[w].user, w>> \in Routes

\* A mirror is only inserted with the kind that was found for it.
Inserting == \A w \in Workers : job[w].pc = "insert" => job[w].status \in Statuses

TInv == TypeOK /\ Routed /\ Inserting

PCs == {"idle", "begin", "clear", "owner", "count", "insert", "announce", "remove"}
JobType == [pc : PCs, op : Ops \cup {"none"}, user : Users \cup {0}, uid : Ids,
            id : Ids, status : Statuses \cup {"none"}]

LEMMA Interval == \A a, b \in Nat : a <= b => 0 .. a - 1 \subseteq 0 .. b - 1
OBVIOUS

LEMMA Grow ==
  ASSUME serial \in Nat, serial' \in Nat, serial <= serial'
  PROVE  /\ Ids \subseteq Ids' /\ JobType \subseteq JobType'
         /\ [id : Ids, owner : Ids, status : Statuses]
              \subseteq [id : Ids', owner : Ids', status : Statuses]
<1>1. Ids \subseteq Ids'
  BY Interval DEF Ids
<1> QED BY <1>1, SMTT(60) DEF JobType

LEMMA IdleType == serial \in Nat \ {0} => Idle \in JobType
BY DEF Idle, JobType, Ids, PCs

LEMMA BusyUser ==
  ASSUME TInv, NEW w \in Workers, job[w] # Idle
  PROVE  job[w].user \in Users
BY RoutesAssumption DEF TInv, Routed

\* The steps of a worker.
Act(w) ==
  \/ Receive(w) \/ Start(w) \/ DeleteData(w) \/ CreateMirror(w) \/ Token(w) \/ Menu(w)
  \/ Fail(w)

LEMMA InitType == Init => TInv
<1> SUFFICES ASSUME Init PROVE TInv
  OBVIOUS
<1>1. serial = 1 /\ Ids = {0}
  BY DEF Init, Ids
<1>2. Idle \in JobType
  BY <1>1, IdleType
<1>3. received \in 0 .. MaxUpdates /\ faults \in 0 .. MaxFaults
  BY BoundsAssumption DEF Init
<1>4. TypeOK
  BY <1>1, <1>2, <1>3 DEF Init, TypeOK, JobType, PCs
<1>5. Routed /\ Inserting
  BY DEF Init, Routed, Inserting, Idle
<1> QED BY <1>4, <1>5 DEF TInv

\* What a step of worker w must show of the job x it leaves and of the rest.
LEMMA StepType ==
  ASSUME TInv, NEW w \in Workers, NEW x,
         job' = [job EXCEPT ![w] = x], x \in JobType', x # Idle => <<x.user, w>> \in Routes,
         x.pc = "insert" => x.status \in Statuses,
         serial' \in Nat, serial <= serial',
         account' \in [Users -> Ids'],
         mirrors' \subseteq [id : Ids', owner : Ids', status : Statuses],
         invoiced' \subseteq Ids', waiting' \subseteq Users,
         view' \in [Users -> Ids'],
         asked' \in [Users -> Nat], made' \in [Users -> Nat],
         received' \in 0 .. MaxUpdates, faults' \in 0 .. MaxFaults
  PROVE  TInv'
<1>1. serial \in Nat /\ job \in [Workers -> JobType]
  BY DEF TInv, TypeOK, JobType, PCs
<1>2. job' \in [Workers -> JobType']
  BY <1>1, Grow
<1>3. serial' \in Nat \ {0}
  BY DEF TInv, TypeOK
<1>4. \A v \in Workers : job'[v] # Idle => <<job'[v].user, v>> \in Routes
  BY <1>1 DEF TInv, Routed
<1>5. Routed' /\ Inserting'
  BY <1>1, <1>4 DEF Routed, Idle, TInv, Inserting
<1>6. TypeOK'
  BY <1>2, <1>3 DEF TypeOK, JobType, PCs
<1> QED BY <1>5, <1>6 DEF TInv

\* A step that writes neither tables nor keys nor messages.
LEMMA JobStep ==
  ASSUME TInv, NEW w \in Workers, NEW x,
         job' = [job EXCEPT ![w] = x], x \in JobType, x # Idle => <<x.user, w>> \in Routes,
         x.pc = "insert" => x.status \in Statuses,
         UNCHANGED <<database, redis, serial, counts>>,
         received' \in 0 .. MaxUpdates, faults' \in 0 .. MaxFaults
  PROVE  TInv'
<1>1. serial \in Nat /\ serial' \in Nat /\ serial <= serial'
  BY DEF TInv, TypeOK
<1>2. /\ account' \in [Users -> Ids']
      /\ mirrors' \subseteq [id : Ids', owner : Ids', status : Statuses]
      /\ invoiced' \subseteq Ids' /\ waiting' \subseteq Users
      /\ view' \in [Users -> Ids']
      /\ asked' \in [Users -> Nat] /\ made' \in [Users -> Nat]
  BY DEF TInv, TypeOK, database, redis, counts, Ids
<1>3. x \in JobType'
  BY <1>1, Grow
<1> QED BY <1>1, <1>2, <1>3, StepType

LEMMA ReceiveType == ASSUME TInv, NEW w \in Workers, Receive(w) PROVE TInv'
<1>1. PICK u \in Users, op \in Ops :
        /\ <<u, w>> \in Routes
        /\ \E id \in IF op = "info" THEN Ids ELSE {0} :
             job' = [job EXCEPT ![w] =
               [Idle EXCEPT !.pc = "begin", !.op = op, !.user = u, !.id = id]]
  BY DEF Receive
<1>2. PICK id \in IF op = "info" THEN Ids ELSE {0} :
             job' = [job EXCEPT ![w] =
               [Idle EXCEPT !.pc = "begin", !.op = op, !.user = u, !.id = id]]
  BY <1>1
<1> DEFINE x == [Idle EXCEPT !.pc = "begin", !.op = op, !.user = u, !.id = id]
<1>3. serial \in Nat \ {0} /\ id \in Ids
  BY DEF TInv, TypeOK, Ids
<1>4. x \in JobType /\ x.user = u /\ x.pc = "begin"
  BY <1>3, IdleType DEF JobType, PCs, Idle
<1>5. job' = [job EXCEPT ![w] = x]
  BY <1>2
<1>6. received' \in 0 .. MaxUpdates /\ faults' \in 0 .. MaxFaults
  BY BoundsAssumption DEF Receive, TInv, TypeOK
<1>7. UNCHANGED <<database, redis, serial, counts>>
  BY DEF Receive
<1> HIDE DEF x
<1> QED BY <1>1, <1>4, <1>5, <1>6, <1>7, JobStep

\* The steps after which only the job is different.
LEMMA MoveType ==
  ASSUME TInv, NEW w \in Workers,
         \/ NotWaiting(w) \/ Waiting(w) \/ TokenRefused(w) \/ FindOwner(w) \/ CountMirrors(w)
         \/ ReadView(w) \/ Fail(w)
  PROVE  TInv'
<1>0. /\ job \in [Workers -> JobType] /\ job[w] \in JobType /\ serial \in Nat \ {0}
      /\ Idle \in JobType /\ received \in 0 .. MaxUpdates /\ faults \in 0 .. MaxFaults
      /\ account \in [Users -> Ids] /\ view \in [Users -> Ids]
  BY IdleType DEF TInv, TypeOK, JobType, PCs
<1>1. job[w] # Idle
  BY DEF NotWaiting, Waiting, TokenRefused, FindOwner, CountMirrors, ReadView, Fail, At, Idle
<1>2. job[w].user \in Users /\ <<job[w].user, w>> \in Routes
  BY <1>1, BusyUser DEF TInv, Routed
<1>3. /\ UNCHANGED <<database, redis, serial, counts>>
      /\ received' \in 0 .. MaxUpdates /\ faults' \in 0 .. MaxFaults
  BY <1>0, BoundsAssumption
  DEF NotWaiting, Waiting, TokenRefused, FindOwner, CountMirrors, ReadView, Fail, redis
<1>4. SUFFICES ASSUME NEW x, job' = [job EXCEPT ![w] = x], x \in JobType,
                      x # Idle => <<x.user, w>> \in Routes,
                      x.pc = "insert" => x.status \in Statuses
               PROVE  TInv'
  <2>1. CASE job' = [job EXCEPT ![w] = Idle]
    BY <1>0, <1>4, <2>1 DEF Idle
  <2>2. CASE Waiting(w)
    <3> DEFINE x == [job[w] EXCEPT !.pc = "clear"]
    <3>1. job' = [job EXCEPT ![w] = x]
      BY <2>2 DEF Waiting, Goto
    <3>2. x \in JobType /\ x.user = job[w].user /\ x.pc # "insert"
      BY <1>0 DEF JobType, PCs
    <3> HIDE DEF x
    <3> QED BY <1>2, <1>4, <3>1, <3>2
  <2>3. CASE FindOwner(w)
    <3> DEFINE x == [job[w] EXCEPT !.pc = "count", !.uid = account[job[w].user]]
    <3>1. job' = [job EXCEPT ![w] = x]
      BY <2>3 DEF FindOwner
    <3>2. x \in JobType /\ x.user = job[w].user /\ x.pc # "insert"
      BY <1>0, <1>2 DEF JobType, PCs
    <3> HIDE DEF x
    <3> QED BY <1>2, <1>4, <3>1, <3>2
  <2>4. CASE CountMirrors(w)
    <3> DEFINE s == IF Active(job[w].uid) >= FreeLimit THEN "pending" ELSE "free"
               x == [job[w] EXCEPT !.pc = "insert", !.status = s]
    <3>1. job' = [job EXCEPT ![w] = x]
      BY <2>4 DEF CountMirrors
    <3>2. s \in Statuses
      BY DEF Statuses
    <3> HIDE DEF s
    <3>3. x \in JobType /\ x.user = job[w].user /\ x.status \in Statuses
      BY <1>0, <3>2 DEF JobType, PCs
    <3> HIDE DEF x
    <3> QED BY <1>2, <1>4, <3>1, <3>3
  <2>5. CASE ReadView(w) /\ view[job[w].user] # 0
    <3> DEFINE x == [job[w] EXCEPT !.pc = "remove", !.id = view[job[w].user]]
    <3>1. job' = [job EXCEPT ![w] = x]
      BY <2>5 DEF ReadView
    <3>2. x \in JobType /\ x.user = job[w].user /\ x.pc # "insert"
      BY <1>0, <1>2 DEF JobType, PCs
    <3> HIDE DEF x
    <3> QED BY <1>2, <1>4, <3>1, <3>2
  <2> QED BY <2>1, <2>2, <2>3, <2>4, <2>5 DEF NotWaiting, TokenRefused, ReadView, Fail, Done
<1> QED BY <1>3, <1>4, JobStep

\* The steps that end the handler and write something.
LEMMA WriteType ==
  ASSUME TInv, NEW w \in Workers,
         \/ Start(w) \/ DeleteData(w) \/ CreateMirror(w) \/ Announce(w)
         \/ ViewMirror(w) \/ RemoveMirror(w)
  PROVE  TInv'
<1> DEFINE Row == [id : Ids, owner : Ids, status : Statuses]
<1>0. /\ job[w] \in JobType /\ serial \in Nat \ {0}
      /\ received \in 0 .. MaxUpdates /\ faults \in 0 .. MaxFaults
      /\ account \in [Users -> Ids] /\ mirrors \subseteq Row /\ invoiced \subseteq Ids
      /\ waiting \subseteq Users /\ view \in [Users -> Ids]
      /\ asked \in [Users -> Nat] /\ made \in [Users -> Nat]
  BY DEF TInv, TypeOK, JobType, PCs
<1>1. job[w].user \in Users
  <2>1. job[w] # Idle
    BY DEF Start, DeleteData, CreateMirror, Announce, ViewMirror, RemoveMirror, At,
      Idle
  <2> QED BY <2>1, BusyUser
<1>2. /\ job' = [job EXCEPT ![w] = Idle]
      /\ received' \in 0 .. MaxUpdates /\ faults' \in 0 .. MaxFaults
  BY <1>0 DEF Start, DeleteData, CreateMirror, Announce, ViewMirror, RemoveMirror, Done
<1>3. serial' \in Nat /\ serial <= serial'
  BY <1>0 DEF Start, DeleteData, CreateMirror, Announce, ViewMirror, RemoveMirror
<1>4. /\ Ids \subseteq Ids' /\ JobType \subseteq JobType'
      /\ Row \subseteq [id : Ids', owner : Ids', status : Statuses]
  BY <1>0, <1>3, Grow
<1>5. account' \in [Users -> Ids']
  <2>1. CASE Start(w)
    <3>1. CASE account[job[w].user] = 0
      <4>1. account' = [account EXCEPT ![job[w].user] = serial] /\ serial' = serial + 1
        BY <2>1, <3>1 DEF Start
      <4>2. serial \in Ids'
        BY <1>0, <4>1 DEF Ids
      <4> QED BY <1>0, <1>4, <4>1, <4>2
    <3>2. CASE account[job[w].user] # 0
      BY <1>0, <1>4, <2>1, <3>2 DEF Start
    <3> QED BY <3>1, <3>2
  <2>2. CASE DeleteData(w)
    <3>1. 0 \in Ids
      BY <1>0 DEF Ids
    <3> QED BY <1>0, <1>4, <2>2, <3>1 DEF DeleteData
  <2>3. CASE ~Start(w) /\ ~DeleteData(w)
    BY <1>0, <1>4, <2>3 DEF CreateMirror, Announce, ViewMirror, RemoveMirror, database
  <2> QED BY <2>1, <2>2, <2>3
<1>6. mirrors' \subseteq Row
  BY <1>0 DEF Start, DeleteData, CreateMirror, Announce, ViewMirror, RemoveMirror,
    database
<1>7. invoiced' \subseteq Ids
  BY <1>0 DEF Start, DeleteData, CreateMirror, Announce, ViewMirror, RemoveMirror,
    database, JobType
<1>8. waiting' \subseteq Users /\ asked' \in [Users -> Nat] /\ made' \in [Users -> Nat]
  BY <1>0, <1>1 DEF Start, DeleteData, CreateMirror, Announce, ViewMirror,
    RemoveMirror, redis, counts
<1>9. view' \in [Users -> Ids]
  BY <1>0, <1>1 DEF Start, DeleteData, CreateMirror, Announce, ViewMirror,
    RemoveMirror, redis, JobType
<1>11. Idle \in JobType' /\ Idle.pc = "idle"
  BY <1>0, <1>4, IdleType DEF Idle
<1> HIDE DEF Row
<1>12. /\ mirrors' \subseteq [id : Ids', owner : Ids', status : Statuses] /\ invoiced' \subseteq Ids'
       /\ view' \in [Users -> Ids']
  BY <1>4, <1>6, <1>7, <1>9
<1> QED BY <1>2, <1>3, <1>5, <1>8, <1>11, <1>12, StepType

LEMMA TokenType == ASSUME TInv, NEW w \in Workers, ClearWait(w) \/ InsertMirror(w) PROVE TInv'
<1> DEFINE Row == [id : Ids, owner : Ids, status : Statuses]
<1>0. /\ job[w] \in JobType /\ serial \in Nat \ {0} /\ Idle \in JobType
      /\ received \in 0 .. MaxUpdates /\ faults \in 0 .. MaxFaults
      /\ account \in [Users -> Ids] /\ mirrors \subseteq Row /\ invoiced \subseteq Ids
      /\ waiting \subseteq Users /\ view \in [Users -> Ids]
      /\ asked \in [Users -> Nat] /\ made \in [Users -> Nat]
  BY IdleType DEF TInv, TypeOK, JobType, PCs
<1>1. job[w].user \in Users /\ <<job[w].user, w>> \in Routes
  <2>1. job[w] # Idle
    BY DEF ClearWait, InsertMirror, At, Idle
  <2> QED BY <2>1, BusyUser DEF TInv, Routed
<1>2. CASE ClearWait(w)
  <2> DEFINE x == IF job[w].op = "cancel" THEN Idle ELSE [job[w] EXCEPT !.pc = "owner"]
  <2>1. job' = [job EXCEPT ![w] = x]
    BY <1>2 DEF ClearWait, Done, Goto
  <2>2. x \in JobType /\ (x # Idle => x.user = job[w].user) /\ x.pc # "insert"
    BY <1>0 DEF JobType, PCs, Idle
  <2>3. /\ account' \in [Users -> Ids] /\ mirrors' \subseteq Row /\ invoiced' \subseteq Ids
        /\ waiting' \subseteq Users /\ view' \in [Users -> Ids]
        /\ asked' \in [Users -> Nat] /\ made' \in [Users -> Nat]
        /\ received' \in 0 .. MaxUpdates /\ faults' \in 0 .. MaxFaults
        /\ serial' = serial /\ serial' \in Nat /\ serial <= serial'
    BY <1>0, <1>2 DEF ClearWait, database, counts
  <2>4. Ids' = Ids /\ JobType' = JobType
    BY <2>3 DEF Ids, JobType
  <2> HIDE DEF x
  <2> QED BY <1>1, <2>1, <2>2, <2>3, <2>4, StepType
<1>3. CASE InsertMirror(w)
  <2> DEFINE x == [job[w] EXCEPT !.pc = "announce", !.id = serial]
             m == [id |-> serial, owner |-> job[w].uid, status |-> job[w].status]
  <2>1. /\ job' = [job EXCEPT ![w] = x] /\ mirrors' = mirrors \cup {m}
        /\ made' = [made EXCEPT ![job[w].user] = @ + 1]
        /\ serial' = serial + 1 /\ serial' \in Nat /\ serial <= serial'
    <3>1. serial' = serial + 1 /\ serial' \in Nat /\ serial <= serial'
      BY <1>0, <1>3 DEF InsertMirror
    <3> QED BY <1>3, <3>1 DEF InsertMirror
  <2>2. /\ Ids \subseteq Ids' /\ JobType \subseteq JobType'
        /\ Row \subseteq [id : Ids', owner : Ids', status : Statuses]
    BY <1>0, <2>1, Grow
  <2>3. serial \in Ids'
    BY <1>0, <2>1 DEF Ids
  <2>4. job[w] \in JobType'
    BY <1>0, <2>2
  <2>5. x \in JobType' /\ x.user = job[w].user /\ x.pc = "announce"
    BY <2>3, <2>4 DEF JobType, PCs
  <2>6. job[w].status \in Statuses
    BY <1>3 DEF TInv, Inserting, InsertMirror, At
  <2>7. m \in [id : Ids', owner : Ids', status : Statuses]
    BY <2>3, <2>4, <2>6 DEF JobType
  <2>8. mirrors' \subseteq [id : Ids', owner : Ids', status : Statuses]
    BY <1>0, <2>1, <2>2, <2>7
  <2>9. /\ account' \in [Users -> Ids'] /\ invoiced' \subseteq Ids'
        /\ waiting' \subseteq Users /\ view' \in [Users -> Ids']
        /\ asked' \in [Users -> Nat]
    BY <1>0, <1>3, <2>2 DEF InsertMirror, redis
  <2>10. /\ made' \in [Users -> Nat]
         /\ received' \in 0 .. MaxUpdates /\ faults' \in 0 .. MaxFaults
    BY <1>0, <1>1, <1>3, <2>1 DEF InsertMirror
  <2> HIDE DEF x, m
  <2> QED BY <1>1, <2>1, <2>5, <2>8, <2>9, <2>10, StepType
<1> QED BY <1>2, <1>3

LEMMA OtherType == ASSUME TInv, Pay \/ RunOut \/ ExpireKey PROVE TInv'
<1>0. serial \in Nat \ {0} /\ mirrors \subseteq [id : Ids, owner : Ids, status : Statuses]
  BY DEF TInv, TypeOK
<1>1. job' = job /\ serial' = serial /\ UNCHANGED <<account, invoiced, counts, received, faults>>
  BY DEF Pay, RunOut, ExpireKey, database
<1>2. mirrors' \subseteq [id : Ids, owner : Ids, status : Statuses]
  BY <1>0 DEF Pay, RunOut, ExpireKey, SetStatus, database, Statuses
<1>3. waiting' \subseteq Users /\ view' \in [Users -> Ids]
  <2>1. 0 \in Ids /\ waiting \subseteq Users /\ view \in [Users -> Ids]
    BY <1>0 DEF TInv, TypeOK, Ids
  <2> QED BY <2>1 DEF Pay, RunOut, ExpireKey, redis
<1>4. TypeOK'
  BY <1>1, <1>2, <1>3 DEF TInv, TypeOK, Ids, counts
<1> QED BY <1>1, <1>4 DEF TInv, Routed, Inserting

LEMMA NextType == ASSUME TInv, [Next]_vars PROVE TInv'
<1>1. CASE UNCHANGED vars
  BY <1>1 DEF TInv, TypeOK, Routed, Inserting, Ids, vars, database, redis, counts
<1>2. ASSUME NEW w \in Workers, Act(w) PROVE TInv'
  BY <1>2, ReceiveType, MoveType, WriteType, TokenType DEF Act, Token, Menu
<1>3. CASE Pay \/ RunOut \/ ExpireKey
  BY <1>3, OtherType
<1> QED BY <1>1, <1>2, <1>3 DEF Next, Act

LEMMA TypeInvariant == Spec => []TInv
BY InitType, NextType, PTL DEF Spec

\* Every variable keeps its type, and every id in a row, a key or a job was drawn
\* from the sequences, for any routes.
THEOREM TypeCorrect == Spec => []TypeOK
<1>1. TInv => TypeOK
  BY DEF TInv
<1> QED BY <1>1, TypeInvariant, PTL

-----------------------------------------------------------------------------
(* Rows, for any routes.                                                   *)

\* No two mirrors have one id, and every mirror, also one in the making, has an owner.
UniqueMirrors ==
  /\ \A m \in mirrors : m.id # 0 /\ m.owner # 0
  /\ \A m, n \in mirrors : m.id = n.id => m = n

Owners == \A w \in Workers : job[w].pc \in {"count", "insert"} => job[w].uid # 0

LInv == TInv /\ UniqueMirrors /\ Owners

\* A step is one worker's.
LEMMA OthersKeep ==
  ASSUME TInv, NEW w \in Workers, Act(w), NEW v \in Workers \ {w}
  PROVE  job'[v] = job[v]
<1>1. job \in [Workers -> JobType]
  BY DEF TInv, TypeOK, JobType, PCs
<1> QED
  BY <1>1 DEF Act, Receive, Start, DeleteData, CreateMirror, Token, NotWaiting, Waiting, ClearWait,
    TokenRefused, FindOwner, CountMirrors, InsertMirror, Announce, Menu, ViewMirror,
    ReadView, RemoveMirror, Fail, Done, Goto

\* What a step leaves of the worker's job.
LEMMA Moves ==
  ASSUME TInv, NEW w \in Workers, Act(w)
  PROVE  \/ job'[w] = Idle
         \/ Receive(w) /\ job'[w].pc = "begin" /\ job'[w].user \in Users
         \/ /\ job'[w].user = job[w].user /\ job'[w].op = job[w].op /\ job[w].user \in Users
            /\ \/ Waiting(w) /\ job'[w].pc = "clear" /\ job'[w].id = job[w].id
               \/ ClearWait(w) /\ job'[w].pc = "owner" /\ job'[w].id = job[w].id
               \/ /\ FindOwner(w) /\ job'[w].pc = "count" /\ job'[w].id = job[w].id
                  /\ job'[w].uid = account[job[w].user]
               \/ /\ CountMirrors(w) /\ job'[w].pc = "insert" /\ job'[w].id = job[w].id
                  /\ job'[w].uid = job[w].uid
                  /\ job'[w].status = "free" => ~(Active(job[w].uid) >= FreeLimit)
               \/ InsertMirror(w) /\ job'[w].pc = "announce" /\ job'[w].id = serial
               \/ /\ ReadView(w) /\ job'[w].pc = "remove" /\ job'[w].id = view[job[w].user]
<1>0. /\ job \in [Workers -> JobType] /\ job[w] \in JobType /\ serial \in Nat \ {0}
      /\ job[w] # Idle => job[w].user \in Users
  BY BusyUser DEF TInv, TypeOK, JobType, PCs
<1>1. CASE Receive(w)
  <2>1. PICK u \in Users, op \in Ops : \E id \in IF op = "info" THEN Ids ELSE {0} :
          job' = [job EXCEPT ![w] =
            [Idle EXCEPT !.pc = "begin", !.op = op, !.user = u, !.id = id]]
    BY <1>1 DEF Receive
  <2>2. PICK id \in IF op = "info" THEN Ids ELSE {0} : job' = [job EXCEPT ![w] =
            [Idle EXCEPT !.pc = "begin", !.op = op, !.user = u, !.id = id]]
    BY <2>1
  <2>3. job'[w] = [Idle EXCEPT !.pc = "begin", !.op = op, !.user = u, !.id = id]
    BY <1>0, <2>2
  <2>4. job'[w].pc = "begin" /\ job'[w].user = u
    BY <2>3 DEF Idle
  <2> QED BY <1>1, <2>2, <2>4
<1>2. CASE Waiting(w)
  <2>1. job'[w] = [job[w] EXCEPT !.pc = "clear"]
    BY <1>0, <1>2 DEF Waiting, Goto
  <2>2. job[w] # Idle
    BY <1>2 DEF Waiting, At, Idle
  <2> QED BY <1>0, <1>2, <2>1, <2>2 DEF JobType
<1>3. CASE ClearWait(w)
  <2>1. job'[w] = Idle \/ job'[w] = [job[w] EXCEPT !.pc = "owner"]
    BY <1>0, <1>3 DEF ClearWait, Goto, Done
  <2>2. job[w] # Idle
    BY <1>3 DEF ClearWait, At, Idle
  <2> QED BY <1>0, <1>3, <2>1, <2>2 DEF JobType
<1>4. CASE FindOwner(w)
  <2>1. job'[w] = [job[w] EXCEPT !.pc = "count", !.uid = account[job[w].user]]
    BY <1>0, <1>4 DEF FindOwner
  <2>2. job[w] # Idle
    BY <1>4 DEF FindOwner, At, Idle
  <2> QED BY <1>0, <1>4, <2>1, <2>2 DEF JobType
<1>5. CASE CountMirrors(w)
  <2> DEFINE s == IF Active(job[w].uid) >= FreeLimit THEN "pending" ELSE "free"
  <2>1. job'[w] = [job[w] EXCEPT !.pc = "insert", !.status = s]
    BY <1>0, <1>5 DEF CountMirrors
  <2>2. job[w] # Idle
    BY <1>5 DEF CountMirrors, At, Idle
  <2>3. s = "free" => ~(Active(job[w].uid) >= FreeLimit)
    OBVIOUS
  <2> HIDE DEF s
  <2>4. /\ job'[w].pc = "insert" /\ job'[w].status = s /\ job'[w].id = job[w].id
        /\ job'[w].uid = job[w].uid /\ job'[w].user = job[w].user /\ job'[w].op = job[w].op
    BY <1>0, <2>1 DEF JobType
  <2> QED BY <1>0, <1>5, <2>2, <2>3, <2>4
<1>6. CASE InsertMirror(w)
  <2>1. job'[w] = [job[w] EXCEPT !.pc = "announce", !.id = serial]
    BY <1>0, <1>6 DEF InsertMirror
  <2>2. job[w] # Idle
    BY <1>6 DEF InsertMirror, At, Idle
  <2> QED BY <1>0, <1>6, <2>1, <2>2 DEF JobType
<1>7. CASE ReadView(w)
  <2>1. job'[w] = Idle \/ job'[w] = [job[w] EXCEPT !.pc = "remove", !.id = view[job[w].user]]
    BY <1>0, <1>7 DEF ReadView, Done
  <2>2. job[w] # Idle
    BY <1>7 DEF ReadView, At, Idle
  <2> QED BY <1>0, <1>7, <2>1, <2>2 DEF JobType
<1>8. ASSUME Start(w) \/ DeleteData(w) \/ CreateMirror(w) \/ NotWaiting(w) \/ TokenRefused(w)
               \/ Announce(w) \/ ViewMirror(w) \/ RemoveMirror(w) \/ Fail(w)
      PROVE  job'[w] = Idle
  BY <1>0, <1>8 DEF Start, DeleteData, CreateMirror, NotWaiting, TokenRefused, Announce,
    ViewMirror, RemoveMirror, Fail, Done
<1> QED BY <1>1, <1>2, <1>3, <1>4, <1>5, <1>6, <1>7, <1>8 DEF Act, Token, Menu

LEMMA Bound ==
  ASSUME TInv
  PROVE  /\ serial \notin Ids /\ \A m \in mirrors : m \in [id : Ids, owner : Ids, status : Statuses]
         /\ account \in [Users -> Ids] /\ view \in [Users -> Ids]
         /\ \A w \in Workers : job[w].id \in Ids /\ job[w].uid \in Ids
BY DEF TInv, TypeOK, Ids

\* No step but an insertion brings a mirror that was not there, apart from its status.
LEMMA NothingNew ==
  ASSUME TInv, Next, \A w \in Workers : ~InsertMirror(w), NEW n \in mirrors'
  PROVE  \E m \in mirrors : m.id = n.id /\ m.owner = n.owner
<1>1. CASE Pay \/ RunOut
  BY <1>1, Bound DEF Pay, RunOut, SetStatus
<1>2. CASE ExpireKey
  BY <1>2 DEF ExpireKey, database
<1>3. ASSUME NEW w \in Workers, Act(w) PROVE n \in mirrors
  BY <1>3 DEF Act, Receive, Start, DeleteData, CreateMirror, Token, NotWaiting, Waiting,
    ClearWait, TokenRefused, FindOwner, CountMirrors, Announce, Menu, ViewMirror,
    ReadView, RemoveMirror, Fail, database
<1> QED BY <1>1, <1>2, <1>3 DEF Next, Act

LEMMA Inserted ==
  ASSUME TInv, NEW w \in Workers, InsertMirror(w), Owners
  PROVE  /\ \A n \in mirrors' : n \in mirrors \/ (n.id = serial /\ n.owner = job[w].uid)
         /\ \A m, n \in mirrors' : m \notin mirrors /\ n \notin mirrors => m = n
         /\ job[w].uid # 0 /\ account' = account
BY DEF InsertMirror, Owners, At

LEMMA UniqueStep == ASSUME LInv, Next PROVE UniqueMirrors'
<1>0. TInv /\ UniqueMirrors /\ Owners /\ serial # 0
  BY DEF LInv, TInv, TypeOK
<1>1. CASE \E w \in Workers : InsertMirror(w)
  <2>1. \A m \in mirrors : m.id # serial
    BY <1>0, Bound
  <2> QED BY <1>0, <1>1, <2>1, Inserted DEF UniqueMirrors
<1>2. CASE Pay \/ RunOut
  BY <1>0, <1>2, Bound DEF Pay, RunOut, SetStatus, UniqueMirrors
<1>3. CASE ExpireKey
  BY <1>0, <1>3 DEF ExpireKey, database, UniqueMirrors
<1>4. ASSUME NEW w \in Workers, Act(w), ~InsertMirror(w) PROVE mirrors' \subseteq mirrors
  BY <1>4 DEF Act, Receive, Start, DeleteData, CreateMirror, Token, NotWaiting, Waiting,
    ClearWait, TokenRefused, FindOwner, CountMirrors, Announce, Menu, ViewMirror,
    ReadView, RemoveMirror, Fail, database
<1>5. \A w \in Workers : Act(w) /\ ~InsertMirror(w) => UniqueMirrors'
  BY <1>0, <1>4 DEF UniqueMirrors
<1> QED BY <1>1, <1>2, <1>3, <1>5 DEF Next, Act

LEMMA OwnersStep == ASSUME LInv, Next PROVE Owners'
<1>0. TInv /\ Owners
  BY DEF LInv
<1>1. CASE Pay \/ RunOut \/ ExpireKey
  BY <1>0, <1>1 DEF Pay, RunOut, ExpireKey, Owners
<1>2. ASSUME NEW w \in Workers, Act(w), NEW v \in Workers, job'[v].pc \in {"count", "insert"}
      PROVE  job'[v].uid # 0
  <2>1. CASE v # w
    BY <1>0, <1>2, <2>1, OthersKeep DEF Owners
  <2>2. CASE v = w
    <3>1. \/ FindOwner(w) /\ job'[w].uid = account[job[w].user]
          \/ CountMirrors(w) /\ job'[w].uid = job[w].uid
      BY <1>0, <1>2, <2>2, Moves DEF Idle
    <3> QED BY <1>0, <2>2, <3>1 DEF FindOwner, CountMirrors, Owners, At
  <2> QED BY <2>1, <2>2
<1> QED BY <1>1, <1>2 DEF Next, Act, Owners

-----------------------------------------------------------------------------
(* One worker per user.                                                    *)

\* The updates of a user all reach one worker.
OneWorker == \A u \in Users, v, w \in Workers : <<u, v>> \in Routes /\ <<u, w>> \in Routes => v = w

LEMMA OneAtATime ==
  ASSUME OneWorker, TInv, NEW v \in Workers, NEW w \in Workers, v # w, job[v] # Idle, job[w] # Idle
  PROVE  job[v].user # job[w].user
<1>1. job[v].user \in Users /\ <<job[v].user, v>> \in Routes /\ <<job[w].user, w>> \in Routes
  BY BusyUser DEF TInv, Routed
<1> QED BY <1>1 DEF OneWorker

\* A wait, and a token that is being looked at, stand for a request nothing was made of yet.
Credit(u) == IF u \in waiting THEN 1 ELSE 0
Credits ==
  /\ \A u \in Users : made[u] + Credit(u) <= asked[u]
  /\ \A w \in Workers : job[w].pc \in {"clear", "owner", "count", "insert"} =>
       made[job[w].user] + 1 <= asked[job[w].user]
  /\ \A w \in Workers : job[w].pc \in {"owner", "count", "insert"} => job[w].user \notin waiting

LEMMA CreditsStep == ASSUME OneWorker, TInv, Credits, Next PROVE Credits'
<1>0. made \in [Users -> Nat] /\ asked \in [Users -> Nat] /\ waiting \subseteq Users
  BY DEF TInv, TypeOK
<1>1. CASE Pay \/ RunOut \/ ExpireKey
  <2>1. waiting' \subseteq waiting /\ made' = made /\ asked' = asked /\ job' = job
    BY <1>1 DEF Pay, RunOut, ExpireKey, redis, counts
  <2> QED BY <1>0, <2>1 DEF Credits, Credit
<1>2. ASSUME NEW w \in Workers, Act(w) PROVE Credits'
  <2>0. \A v \in Workers \ {w} : job'[v] = job[v]
    BY <1>2, OthersKeep
  <2>1. CASE CreateMirror(w)
    <3> DEFINE u == job[w].user
    <3>1. job[w] # Idle /\ u \in Users /\ job'[w] = Idle
      <4>1. job[w] # Idle
        BY <2>1 DEF CreateMirror, At, Idle
      <4>2. job \in [Workers -> JobType]
        BY DEF TInv, TypeOK, JobType, PCs
      <4> QED BY <2>1, <4>1, <4>2, BusyUser DEF CreateMirror, Done
    <3>2. /\ waiting' = waiting \cup {u} /\ made' = made
          /\ asked' = [asked EXCEPT ![u] = @ + 1]
      BY <2>1 DEF CreateMirror
    <3>3. \A v \in Workers : job'[v] # Idle => v # w /\ job'[v] = job[v] /\ job[v].user # u
      BY <2>0, <3>1, OneAtATime
    <3> HIDE DEF u
    <3>4. \A x \in Users : made'[x] + Credit(x)' <= asked'[x]
      BY <1>0, <3>1, <3>2 DEF Credits, Credit
    <3>5. \A v \in Workers : job'[v] # Idle => job[v].user \in Users
      BY <3>3, BusyUser
    <3>6. \A v \in Workers : job'[v].pc \in {"clear", "owner", "count", "insert"} =>
            made'[job'[v].user] + 1 <= asked'[job'[v].user]
      BY <1>0, <3>1, <3>2, <3>3, <3>5 DEF Credits, Idle
    <3>7. \A v \in Workers : job'[v].pc \in {"owner", "count", "insert"} => job'[v].user \notin waiting'
      BY <3>2, <3>3 DEF Credits, Idle
    <3> QED BY <3>4, <3>6, <3>7 DEF Credits
  <2>2. CASE InsertMirror(w)
    <3> DEFINE u == job[w].user
    <3>1. job[w] # Idle /\ u \in Users
      <4>1. job[w] # Idle
        BY <2>2 DEF InsertMirror, At, Idle
      <4> QED BY <4>1, BusyUser
    <3>2. /\ waiting' = waiting /\ asked' = asked /\ made' = [made EXCEPT ![u] = @ + 1]
          /\ u \notin waiting /\ made[u] + 1 <= asked[u]
      BY <2>2 DEF InsertMirror, redis, Credits, At
    <3>3. job'[w].pc = "announce"
      <4>1. job \in [Workers -> JobType]
        BY DEF TInv, TypeOK, JobType, PCs
      <4> QED BY <2>2, <4>1 DEF InsertMirror, JobType
    <3>4. \A v \in Workers \ {w} : job[v] # Idle => job[v].user # u /\ job[v].user \in Users
      BY <3>1, OneAtATime, BusyUser
    <3> HIDE DEF u
    <3>5. \A x \in Users : made'[x] + Credit(x)' <= asked'[x]
      BY <1>0, <3>1, <3>2 DEF Credits, Credit
    <3>6. \A v \in Workers : job'[v].pc \in {"clear", "owner", "count", "insert"} =>
            made'[job'[v].user] + 1 <= asked'[job'[v].user]
      BY <1>0, <2>0, <3>1, <3>2, <3>3, <3>4 DEF Credits, Idle
    <3>7. \A v \in Workers : job'[v].pc \in {"owner", "count", "insert"} => job'[v].user \notin waiting'
      BY <2>0, <3>2, <3>3 DEF Credits
    <3> QED BY <3>5, <3>6, <3>7 DEF Credits
  <2>3. CASE Waiting(w)
    <3>1. UNCHANGED <<waiting, made, asked>> /\ job[w].user \in waiting /\ job[w] # Idle
      BY <2>3 DEF Waiting, redis, counts, At, Idle
    <3>2. job'[w].user = job[w].user /\ job'[w].pc = "clear" /\ job[w].user \in Users
      <4>1. job \in [Workers -> JobType]
        BY DEF TInv, TypeOK, JobType, PCs
      <4> QED BY <2>3, <3>1, <4>1, BusyUser DEF Waiting, Goto, JobType
    <3>3. made[job[w].user] + 1 <= asked[job[w].user]
      BY <1>0, <3>1, <3>2 DEF Credits, Credit
    <3> QED BY <2>0, <3>1, <3>2, <3>3 DEF Credits, Credit
  <2>4. CASE ClearWait(w)
    <3>1. UNCHANGED <<made, asked>> /\ waiting' = waiting \ {job[w].user} /\ job[w] # Idle
      BY <2>4 DEF ClearWait, counts, At, Idle
    <3>2. job'[w] = Idle \/ job'[w].user = job[w].user
      <4>1. job \in [Workers -> JobType]
        BY DEF TInv, TypeOK, JobType, PCs
      <4> QED BY <2>4, <3>1, <4>1 DEF ClearWait, Goto, Done, JobType
    <3>3. \A x \in Users : made'[x] + Credit(x)' <= asked'[x]
      BY <1>0, <3>1 DEF Credits, Credit
    <3>4. job[w].pc = "clear"
      BY <2>4 DEF ClearWait, At
    <3> QED BY <2>0, <3>1, <3>2, <3>3, <3>4 DEF Credits, Idle
  <2>5. ASSUME ~CreateMirror(w), ~InsertMirror(w), ~Waiting(w), ~ClearWait(w) PROVE Credits'
    <3>1. UNCHANGED <<waiting, made, asked>>
      BY <1>2, <2>5 DEF Act, Receive, Start, DeleteData, Token, NotWaiting, TokenRefused,
        FindOwner, CountMirrors, Announce, Menu, ViewMirror, ReadView, RemoveMirror,
        Fail, redis, counts
    <3>2. \/ job'[w].pc \notin {"clear", "owner", "count", "insert"}
          \/ job'[w].user = job[w].user /\ (FindOwner(w) \/ CountMirrors(w))
      BY <1>2, <2>5, Moves DEF Idle
    <3>3. FindOwner(w) \/ CountMirrors(w) => job[w].pc \in {"owner", "count"}
      BY DEF FindOwner, CountMirrors, At
    <3> QED BY <2>0, <3>1, <3>2, <3>3 DEF Credits, Credit
  <2> QED BY <2>1, <2>2, <2>3, <2>4, <2>5
<1> QED BY <1>1, <1>2 DEF Next, Act

\* When a user's updates are handled one after another, one /create_mirror makes one mirror
\* at most.
THEOREM OnePerRequest == ASSUME OneWorker PROVE Spec => []OneMirrorPerRequest
<1>1. Init => Credits
  BY DEF Init, Credits, Credit, Idle
<1>2. TInv /\ Credits /\ [Next]_vars => Credits'
  <2>1. UNCHANGED vars /\ Credits => Credits'
    BY DEF vars, redis, counts, Credits, Credit
  <2> QED BY <2>1, CreditsStep
<1>3. TInv /\ Credits => OneMirrorPerRequest
  <2>1. TInv => made \in [Users -> Nat] /\ asked \in [Users -> Nat]
    BY DEF TInv, TypeOK
  <2> QED BY <2>1 DEF Credits, Credit, OneMirrorPerRequest
<1> QED BY <1>1, <1>2, <1>3, TypeInvariant, PTL DEF Spec

\* The account that was found for a token is still its sender's when the mirror is made, and
\* what the count left free is still free.
Accounts == \A u, v \in Users : account[u] = account[v] /\ account[u] # 0 => u = v
Found == \A w \in Workers : job[w].pc \in {"count", "insert"} => job[w].uid = account[job[w].user]
Room == \A w \in Workers : job[w].pc = "insert" /\ job[w].status = "free" =>
          Cardinality(Owned(job[w].uid, {"free"})) < FreeLimit

MInv == /\ LInv /\ IsFiniteSet(mirrors) /\ Accounts /\ Found /\ Room
        /\ FreeLimitKept /\ OwnerIsMember

LEMMA InitMembers == Init => MInv
<1> SUFFICES ASSUME Init PROVE MInv
  OBVIOUS
<1>1. LInv
  BY InitType DEF Init, LInv, UniqueMirrors, Owners, Idle
<1>2. Accounts /\ Found /\ Room /\ FreeLimitKept /\ OwnerIsMember
  BY DEF Init, Accounts, Found, Room, FreeLimitKept, OwnerIsMember, Idle
<1>3. IsFiniteSet(mirrors)
  BY FS_EmptySet DEF Init
<1> QED BY <1>1, <1>2, <1>3 DEF MInv

\* The free mirrors of an account after the step.
FreeNext(uid) == Cardinality({m \in mirrors' : m.owner = uid /\ m.status \in {"free"}})

LEMMA FewerOwned ==
  ASSUME IsFiniteSet(mirrors), NEW S, S \subseteq mirrors,
         NEW T, T \subseteq S
  PROVE  Cardinality(T) \in Nat /\ Cardinality(S) \in Nat /\ Cardinality(T) <= Cardinality(S)
BY FS_Subset, FS_CardinalityType

\* No step but an insertion takes room.
LEMMA SpareRoom ==
  ASSUME MInv, Next, \A w \in Workers : ~InsertMirror(w), NEW uid
  PROVE  /\ IsFiniteSet(mirrors')
         /\ FreeNext(uid) \in Nat /\ Cardinality(Owned(uid, {"free"})) \in Nat
         /\ FreeNext(uid) <= Cardinality(Owned(uid, {"free"}))
<1>0. TInv /\ IsFiniteSet(mirrors)
  BY DEF MInv, LInv
<1>1. CASE Pay \/ RunOut
  <2>1. PICK m \in mirrors, s \in {"paid", "expired"} : SetStatus(m, s)
    BY <1>1 DEF Pay, RunOut
  <2>2. IsFiniteSet(mirrors')
    <3>1. IsFiniteSet(mirrors \ {m})
      BY <1>0, FS_Difference
    <3> QED BY <2>1, <3>1, FS_AddElement DEF SetStatus
  <2>3. Owned(uid, {"free"})' \subseteq Owned(uid, {"free"})
    BY <1>0, <2>1, Bound DEF SetStatus, Owned
  <2> QED BY <1>0, <2>2, <2>3, FewerOwned DEF Owned, FreeNext
<1>2. CASE mirrors' \subseteq mirrors
  <2>1. IsFiniteSet(mirrors')
    BY <1>0, <1>2, FS_Subset
  <2>2. Owned(uid, {"free"})' \subseteq Owned(uid, {"free"})
    BY <1>2 DEF Owned
  <2> QED BY <1>0, <2>1, <2>2, FewerOwned DEF Owned, FreeNext
<1>3. ASSUME NEW w \in Workers, Act(w) PROVE mirrors' \subseteq mirrors
  BY <1>3 DEF Act, Receive, Start, DeleteData, CreateMirror, Token, NotWaiting, Waiting,
    ClearWait, TokenRefused, FindOwner, CountMirrors, Announce, Menu, ViewMirror,
    ReadView, RemoveMirror, Fail, database
<1> QED BY <1>1, <1>2, <1>3 DEF Next, Act, ExpireKey, database

LEMMA FoundStep == ASSUME OneWorker, MInv, Next PROVE Accounts' /\ Found'
<1>0. /\ TInv /\ Accounts /\ Found /\ Owners /\ account \in [Users -> Ids]
      /\ serial \notin Ids /\ serial # 0
  BY Bound DEF MInv, LInv, TInv, TypeOK
<1>1. CASE Pay \/ RunOut \/ ExpireKey
  BY <1>0, <1>1 DEF Pay, RunOut, ExpireKey, database, Accounts, Found
<1>2. ASSUME NEW w \in Workers, Act(w) PROVE Accounts' /\ Found'
  <2>0. \A v \in Workers \ {w} : job'[v] = job[v]
    BY <1>0, <1>2, OthersKeep
  <2>1. CASE Start(w) \/ DeleteData(w)
    <3> DEFINE u == job[w].user
    <3>1. job[w] # Idle /\ u \in Users
      <4>1. job[w] # Idle
        BY <2>1 DEF Start, DeleteData, At, Idle
      <4> QED BY <1>0, <4>1, BusyUser
    <3>2. \/ account' = account \/ account' = [account EXCEPT ![u] = serial]
          \/ account' = [account EXCEPT ![u] = 0]
      BY <2>1 DEF Start, DeleteData
    <3>3. job'[w] = Idle
      <4>1. job \in [Workers -> JobType]
        BY <1>0 DEF TInv, TypeOK, JobType, PCs
      <4> QED BY <2>1, <4>1 DEF Start, DeleteData, Done
    <3>4. \A v \in Workers \ {w} : job[v] # Idle => job[v].user # u /\ job[v].user \in Users
      BY <1>0, <3>1, OneAtATime, BusyUser
    <3> HIDE DEF u
    <3>5. Accounts'
      BY <1>0, <3>1, <3>2 DEF Accounts
    <3>6. Found'
      BY <1>0, <2>0, <3>1, <3>2, <3>3, <3>4 DEF Found, Idle
    <3> QED BY <3>5, <3>6
  <2>2. CASE ~Start(w) /\ ~DeleteData(w)
    <3>1. account' = account
      BY <1>2, <2>2 DEF Act, Receive, CreateMirror, Token, NotWaiting, Waiting, ClearWait,
        TokenRefused, FindOwner, CountMirrors, InsertMirror, Announce, Menu, ViewMirror, ReadView, RemoveMirror, Fail, database
    <3>2. \/ job'[w].pc \notin {"count", "insert"}
          \/ job'[w].uid = account[job[w].user] /\ job'[w].user = job[w].user
          \/ CountMirrors(w) /\ job'[w].uid = job[w].uid /\ job'[w].user = job[w].user
      BY <1>0, <1>2, Moves DEF Idle
    <3> QED BY <1>0, <2>0, <3>1, <3>2 DEF Accounts, Found, CountMirrors, At
  <2> QED BY <2>1, <2>2
<1> QED BY <1>1, <1>2 DEF Next, Act

\* An insertion takes room from its own account only, and only what the count left.
LEMMA InsertRoom ==
  ASSUME MInv, NEW w \in Workers, InsertMirror(w), NEW uid
  PROVE  /\ IsFiniteSet(mirrors')
         /\ IF uid = job[w].uid /\ job[w].status = "free"
              THEN FreeNext(uid) <= FreeLimit
              ELSE FreeNext(uid) = Cardinality(Owned(uid, {"free"}))
<1> DEFINE m == [id |-> serial, owner |-> job[w].uid, status |-> job[w].status]
           S == Owned(uid, {"free"})
<1>1. mirrors' = mirrors \cup {m} /\ job[w].pc = "insert"
  BY DEF InsertMirror, At
<1>2. IsFiniteSet(mirrors) /\ IsFiniteSet(mirrors')
  BY <1>1, FS_AddElement DEF MInv
<1>3. IsFiniteSet(S) /\ Cardinality(S) \in Nat
  BY <1>2, FS_Subset, FS_CardinalityType DEF Owned
<1>4. CASE uid = job[w].uid /\ job[w].status = "free"
  <2>1. Cardinality(S) < FreeLimit
    BY <1>1, <1>4 DEF MInv, Room
  <2>2. FreeNext(uid) = Cardinality(S \cup {m})
    <3>1. {n \in mirrors' : n.owner = uid /\ n.status \in {"free"}} = S \cup {m}
      BY <1>1, <1>4 DEF Owned
    <3> QED BY <3>1 DEF FreeNext
  <2>3. m \notin S
    BY Bound DEF MInv, LInv, Owned
  <2>4. Cardinality(S \cup {m}) = Cardinality(S) + 1
    BY <1>3, <2>3, FS_AddElement
  <2>5. FreeLimit \in Nat
    BY LimitAssumption
  <2> HIDE DEF m, S
  <2> QED BY <1>2, <1>3, <1>4, <2>1, <2>2, <2>4, <2>5
<1>5. CASE ~(uid = job[w].uid /\ job[w].status = "free")
  <2>1. FreeNext(uid) = Cardinality(S)
    BY <1>1, <1>5 DEF Owned, FreeNext
  <2> QED BY <1>2, <1>5, <2>1
<1> QED BY <1>4, <1>5

LEMMA RoomStep == ASSUME OneWorker, MInv, Next PROVE Room'
<1>0. TInv /\ Room /\ Found /\ Accounts /\ Owners /\ IsFiniteSet(mirrors) /\ FreeLimit \in Nat
  BY LimitAssumption DEF MInv, LInv
<1>1. CASE \E w \in Workers : InsertMirror(w)
  <2>1. PICK w \in Workers : InsertMirror(w)
    BY <1>1
  <2>2. Act(w) /\ job[w].pc = "insert" /\ job[w] # Idle
    BY <2>1 DEF Act, Token, InsertMirror, At, Idle
  <2>3. job'[w].pc = "announce"
    <3>1. job \in [Workers -> JobType]
      BY <1>0 DEF TInv, TypeOK, JobType, PCs
    <3> QED BY <2>1, <3>1 DEF InsertMirror, JobType
  <2>4. ASSUME NEW v \in Workers \ {w}, job'[v].pc = "insert", job'[v].status = "free"
        PROVE  FreeNext(job'[v].uid) < FreeLimit
    <3>1. job'[v] = job[v] /\ job[v] # Idle
      BY <1>0, <2>2, <2>4, OthersKeep DEF Idle
    <3>2. job[v].user # job[w].user /\ job[v].user \in Users /\ job[w].user \in Users
      BY <1>0, <2>2, <3>1, OneAtATime, BusyUser
    <3>3. job[v].uid # job[w].uid
      BY <1>0, <2>2, <2>4, <3>1, <3>2 DEF Found, Accounts, Owners
    <3>4. FreeNext(job[v].uid) = Cardinality(Owned(job[v].uid, {"free"}))
      BY <2>1, <3>3, InsertRoom
    <3>5. Cardinality(Owned(job[v].uid, {"free"})) < FreeLimit
      BY <1>0, <2>4, <3>1 DEF Room
    <3> QED BY <3>1, <3>4, <3>5
  <2> QED BY <2>3, <2>4 DEF Room, Owned, FreeNext
<1>2. ASSUME \A w \in Workers : ~InsertMirror(w), NEW v \in Workers, job'[v].pc = "insert",
             job'[v].status = "free"
      PROVE  FreeNext(job'[v].uid) < FreeLimit
  <2>1. CASE job'[v] = job[v]
    <3>1. Cardinality(Owned(job[v].uid, {"free"})) < FreeLimit
      BY <1>0, <1>2, <2>1 DEF Room
    <3> QED BY <1>0, <1>2, <2>1, <3>1, SpareRoom
  <2>2. CASE job'[v] # job[v]
    <3>1. Act(v)
      BY <1>0, <2>2, OthersKeep DEF Next, Act, Pay, RunOut, ExpireKey
    <3>2. CountMirrors(v) /\ job'[v].uid = job[v].uid /\ ~(Active(job[v].uid) >= FreeLimit)
      BY <1>0, <1>2, <3>1, Moves DEF Idle
    <3> DEFINE S == Owned(job[v].uid, {"free"})  A == Owned(job[v].uid, {"free", "paid"})
    <3>3. /\ S \subseteq A /\ IsFiniteSet(A)
          /\ Cardinality(S) \in Nat /\ Cardinality(A) \in Nat /\ Cardinality(S) <= Cardinality(A)
      <4>1. S \subseteq A /\ A \subseteq mirrors
        BY DEF Owned
      <4> QED BY <1>0, <4>1, FewerOwned, FS_Subset
    <3>4. ~(Cardinality(A) >= FreeLimit)
      BY <3>2 DEF Active
    <3> HIDE DEF S, A
    <3>5. Cardinality(S) < FreeLimit
      BY <1>0, <3>3, <3>4
    <3>6. mirrors' = mirrors
      BY <3>2 DEF CountMirrors, database
    <3> QED BY <3>2, <3>5, <3>6 DEF S, Owned, FreeNext
  <2> QED BY <2>1, <2>2
<1> QED BY <1>1, <1>2 DEF Room, Owned, FreeNext

LEMMA LimitStep == ASSUME OneWorker, MInv, Next PROVE FreeLimitKept'
<1>0. /\ TInv /\ FreeLimitKept /\ FreeLimit \in Nat /\ account \in [Users -> Ids]
      /\ serial \notin Ids
  BY LimitAssumption, Bound DEF MInv, LInv
<1> SUFFICES ASSUME NEW u \in Users, account'[u] # 0
             PROVE  FreeNext(account'[u]) <= FreeLimit
  BY DEF FreeLimitKept, Owned, FreeNext
<1>1. CASE \E w \in Workers : InsertMirror(w)
  <2>1. PICK w \in Workers : InsertMirror(w)
    BY <1>1
  <2>2. account' = account
    BY <2>1 DEF InsertMirror
  <2>3. Cardinality(Owned(account[u], {"free"})) <= FreeLimit
    BY <1>0, <2>2 DEF FreeLimitKept
  <2> QED BY <2>1, <2>2, <2>3, InsertRoom
<1>2. CASE \A w \in Workers : ~InsertMirror(w)
  <2>1. /\ FreeNext(account'[u]) \in Nat /\ Cardinality(Owned(account'[u], {"free"})) \in Nat
        /\ FreeNext(account'[u]) <= Cardinality(Owned(account'[u], {"free"}))
    BY <1>2, SpareRoom
  <2>2. Cardinality(Owned(account'[u], {"free"})) <= FreeLimit
    <3>1. CASE account'[u] = account[u]
      BY <1>0, <3>1 DEF FreeLimitKept
    <3>2. CASE account'[u] # account[u]
      <4>1. account'[u] = serial
        <5>1. PICK w \in Workers : Start(w) \/ DeleteData(w)
          BY <3>2 DEF Next, Receive, Start, DeleteData, CreateMirror, Token, NotWaiting, Waiting,
            ClearWait, TokenRefused, FindOwner, CountMirrors, InsertMirror, Announce, Menu,
            ViewMirror, ReadView, RemoveMirror, Fail, Pay, RunOut, ExpireKey, database
        <5> QED BY <1>0, <3>2, <5>1 DEF Start, DeleteData
      <4>2. Owned(serial, {"free"}) = {}
        BY <1>0, Bound DEF Owned
      <4> QED BY <1>0, <4>1, <4>2, FS_EmptySet
    <3> QED BY <3>1, <3>2
  <2> QED BY <1>0, <2>1, <2>2
<1> QED BY <1>1, <1>2

LEMMA MemberStep == ASSUME OneWorker, MInv, Next PROVE OwnerIsMember'
<1>0. /\ TInv /\ OwnerIsMember /\ Found /\ Owners /\ UniqueMirrors /\ account \in [Users -> Ids]
  BY Bound DEF MInv, LInv
<1> SUFFICES ASSUME NEW n \in mirrors' PROVE \E u \in Users : account'[u] = n.owner
  BY DEF OwnerIsMember
<1>1. CASE \E w \in Workers : InsertMirror(w)
  <2>1. PICK w \in Workers : InsertMirror(w)
    BY <1>1
  <2>2. /\ account' = account /\ job[w].pc = "insert" /\ job[w] # Idle
        /\ n \in mirrors \/ n.owner = job[w].uid
    BY <2>1 DEF InsertMirror, At, Idle
  <2>3. job[w].user \in Users
    BY <1>0, <2>2, BusyUser
  <2> QED BY <1>0, <2>2, <2>3 DEF OwnerIsMember, Found
<1>2. CASE \A w \in Workers : ~InsertMirror(w)
  <2>1. PICK m \in mirrors : m.owner = n.owner
    BY <1>0, <1>2, NothingNew
  <2>2. PICK u \in Users : account[u] = m.owner
    BY <1>0 DEF OwnerIsMember
  <2>3. CASE account'[u] = account[u]
    BY <2>1, <2>2, <2>3
  <2>4. ASSUME NEW w \in Workers, Start(w), account'[u] # account[u] PROVE FALSE
    BY <1>0, <2>2, <2>4 DEF Start, UniqueMirrors
  <2>5. ASSUME NEW w \in Workers, DeleteData(w), account'[u] # account[u] PROVE FALSE
    BY <1>0, <2>1, <2>2, <2>5 DEF DeleteData
  <2>6. account'[u] = account[u] \/ \E w \in Workers : Start(w) \/ DeleteData(w)
    BY DEF Next, Receive, Start, DeleteData, CreateMirror, Token, NotWaiting, Waiting,
      ClearWait, TokenRefused, FindOwner, CountMirrors, InsertMirror, Announce, Menu,
      ViewMirror, ReadView, RemoveMirror, Fail, Pay, RunOut, ExpireKey, database
  <2> QED BY <2>3, <2>4, <2>5, <2>6
<1> QED BY <1>1, <1>2

LEMMA MembersInvariant == ASSUME OneWorker PROVE Spec => []MInv
<1>1. MInv /\ [Next]_vars => MInv'
  <2>1. ASSUME MInv, UNCHANGED vars PROVE MInv'
    <3>1. TInv'
      BY <2>1, NextType DEF MInv, LInv
    <3>2. UNCHANGED <<account, mirrors, job, view>>
      BY <2>1 DEF vars, database, redis
    <3>3. LInv'
      BY <2>1, <3>1, <3>2 DEF MInv, LInv, UniqueMirrors, Owners
    <3> QED BY <2>1, <3>2, <3>3
      DEF MInv, Accounts, Found, Room, FreeLimitKept, OwnerIsMember, Owned
  <2>2. ASSUME MInv, Next PROVE MInv'
    <3>1. LInv'
      BY <2>2, NextType, UniqueStep, OwnersStep DEF MInv, LInv
    <3>2. IsFiniteSet(mirrors')
      BY <2>2, SpareRoom, InsertRoom
    <3> QED BY <2>2, <3>1, <3>2, FoundStep, RoomStep, LimitStep, MemberStep DEF MInv
  <2> QED BY <2>1, <2>2
<1> QED BY <1>1, InitMembers, PTL DEF Spec

\* Nobody gets more free mirrors than the limit, when one worker has all his updates.
THEOREM LimitKept == ASSUME OneWorker PROVE Spec => []FreeLimitKept
<1>1. MInv => FreeLimitKept
  BY DEF MInv
<1> QED BY <1>1, MembersInvariant, PTL

\* "Delete my data" leaves no mirror behind, now or later, when one worker has all the
\* updates of a user.
THEOREM NoOrphans == ASSUME OneWorker PROVE Spec => []OwnerIsMember
<1>1. MInv => OwnerIsMember
  BY DEF MInv
<1> QED BY <1>1, MembersInvariant, PTL
===============================================================================
