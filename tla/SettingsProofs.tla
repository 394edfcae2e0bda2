--------------------------- MODULE SettingsProofs ---------------------------
(***************************************************************************)
(* Proofs about Settings, for any number of users, workers, switches and   *)
(* kinds of bonus, and any assignment of users to workers.                 *)
(***************************************************************************)
EXTENDS Settings, TLAPS

\* What a handler in progress is about.
Business ==
  \A w \in Workers :
     /\ job[w].pc # "idle" => job[w].op \in Ops /\ <<Reader(w), w>> \in Routes
                                /\ job[w].wanted \in Wanted(job[w].op)
     /\ job[w].pc = "save" => job[w].op \in {"toggle", "bonus"}
     /\ job[w].pc = "send" => job[w].op \in OfSettings \cup OfBonus

\* What a handler that read the row knows of it, when no other worker has an
\* update of the same user.
Fresh ==
  \A w \in Workers : InOrder(Reader(w)) =>
     /\ job[w].pc \in {"save", "send"} => job[w].copy.id = Stored(w).id
     /\ At(w, "save", {"toggle"}) => job[w].copy.on = Flip(Stored(w).on, job[w].wanted)
     /\ At(w, "save", {"bonus"}) => job[w].copy.bonus = job[w].wanted
     /\ At(w, "send", OfSettings) => job[w].copy.on = Stored(w).on
     /\ At(w, "send", OfBonus) => job[w].copy.bonus = Stored(w).bonus

IInv == TypeOK /\ Business /\ Fresh

-----------------------------------------------------------------------------
LEMMA SomeUser == (CHOOSE u \in Users : TRUE) \in Users
BY UsersAssumption

LEMMA SomeBonus == (CHOOSE b \in Bonuses : TRUE) \in Bonuses
BY BonusesAssumption

\* The idle worker, and the row that is none, are of their types.
LEMMA NoRowType == NoRow \in Rows /\ NoRow.id = 0
BY SomeBonus DEF NoRow, Rows, Positions

LEMMA IdleType == Idle \in Jobs /\ Idle.pc = "idle"
BY SomeUser, NoRowType DEF Idle, Jobs

LEMMA StoredType ==
  ASSUME TypeOK, NEW w \in Workers
  PROVE  /\ job[w] \in Jobs /\ Reader(w) \in Users /\ Stored(w) \in Rows
         /\ Stored(w).id \in Nat /\ serial \in Nat /\ Stored(w).id < serial
         /\ Stored(w).id # 0 => Stored(w).id \in 1 .. serial - 1
<1>1. job[w] \in Jobs /\ Reader(w) \in Users
  BY DEF TypeOK, Jobs, Reader
<1>2. Stored(w) \in Rows /\ Stored(w).id < serial
  BY <1>1 DEF TypeOK, Stored
<1>3. Stored(w).id \in Nat /\ serial \in Nat
  BY <1>2 DEF TypeOK, Rows
<1> QED BY <1>1, <1>2, <1>3

LEMMA FlipType ==
  ASSUME NEW on \in Positions, NEW s \in Switches
  PROVE  Flip(on, s) \in Positions
BY DEF Flip, Positions

-----------------------------------------------------------------------------
LEMMA InitInv == Init => IInv
<1> SUFFICES ASSUME Init PROVE IInv
  OBVIOUS
<1>1. TypeOK
  BY NoRowType, IdleType, BoundsAssumption DEF Init, TypeOK, Rows, Keyboards
<1>2. Business /\ Fresh
  BY IdleType DEF Init, Business, Fresh, At
<1> QED BY <1>1, <1>2 DEF IInv

\* One worker moves on and the rows stay: the other workers' facts stay.
LEMMA OthersKeep ==
  ASSUME IInv, NEW w \in Workers, NEW j \in Jobs,
         job' = [job EXCEPT ![w] = j], row' = row, serial' = serial,
         shown' \in [Users -> Keyboards],
         received' \in 0 .. MaxUpdates, faults' \in 0 .. MaxFaults,
         j.pc \in {"save", "send"} => j.copy.id \in 1 .. serial - 1,
         j.pc # "idle" => j.op \in Ops /\ <<j.user, w>> \in Routes /\ j.wanted \in Wanted(j.op),
         j.pc = "save" => j.op \in {"toggle", "bonus"},
         j.pc = "send" => j.op \in OfSettings \cup OfBonus,
         InOrder(j.user) =>
           /\ j.pc \in {"save", "send"} => j.copy.id = row[j.user].id
           /\ j.pc = "save" /\ j.op = "toggle" => j.copy.on = Flip(row[j.user].on, j.wanted)
           /\ j.pc = "save" /\ j.op = "bonus" => j.copy.bonus = j.wanted
           /\ j.pc = "send" /\ j.op \in OfSettings => j.copy.on = row[j.user].on
           /\ j.pc = "send" /\ j.op \in OfBonus => j.copy.bonus = row[j.user].bonus
  PROVE  IInv'
<1>1. TypeOK'
  BY DEF IInv, TypeOK
<1>2. Business'
  BY DEF IInv, TypeOK, Business, Reader
<1>3. Fresh'
  BY DEF IInv, TypeOK, Fresh, Reader, Stored, At, InOrder
<1> QED BY <1>1, <1>2, <1>3 DEF IInv

\* The handler ends and leaves the rows as they are.
LEMMA DoneKeeps ==
  ASSUME IInv, NEW w \in Workers, Done(w), UNCHANGED <<row, serial>>,
         shown' \in [Users -> Keyboards],
         received' \in 0 .. MaxUpdates, faults' \in 0 .. MaxFaults
  PROVE  IInv'
BY OthersKeep, IdleType DEF Done

\* The handler of w ends with a change of its user's row.
LEMMA RowChanges ==
  ASSUME IInv, NEW w \in Workers, NEW j \in Jobs, NEW r \in Rows,
         job[w].pc # "idle",
         job' = [job EXCEPT ![w] = j], row' = [row EXCEPT ![Reader(w)] = r],
         serial' \in Nat, serial <= serial', r.id < serial',
         UNCHANGED <<shown, received, faults>>,
         j.pc \in {"idle", "send"},
         j.pc = "send" => /\ j.user = Reader(w) /\ j.op = job[w].op
                          /\ j.op \in {"toggle", "bonus"} /\ j.wanted = job[w].wanted
                          /\ j.copy.id \in 1 .. serial - 1
                          /\ InOrder(Reader(w)) =>
                               /\ j.copy.id = r.id
                               /\ j.op = "toggle" => j.copy.on = r.on
                               /\ j.op = "bonus" => j.copy.bonus = r.bonus
  PROVE  IInv'
<1>1. TypeOK'
  <2>1. row' \in [Users -> Rows] /\ job' \in [Workers -> Jobs]
    BY DEF IInv, TypeOK
  <2>2. serial' \in Nat \ {0}
    BY DEF IInv, TypeOK
  <2>3. \A u \in Users : row'[u].id < serial'
    <3> SUFFICES ASSUME NEW u \in Users PROVE row'[u].id < serial'
      OBVIOUS
    <3>1. row[u].id < serial /\ row[u].id \in Nat /\ serial \in Nat
      BY DEF IInv, TypeOK, Rows
    <3>2. row'[u] = r \/ row'[u] = row[u]
      BY DEF IInv, TypeOK
    <3> QED BY <3>1, <3>2 DEF Rows
  <2>4. \A v \in Workers : job'[v].pc \in {"save", "send"} => job'[v].copy.id \in 1 .. serial' - 1
    <3> SUFFICES ASSUME NEW v \in Workers, job'[v].pc \in {"save", "send"}
        PROVE job'[v].copy.id \in 1 .. serial' - 1
      OBVIOUS
    <3>1. job'[v].copy.id \in 1 .. serial - 1
      BY DEF IInv, TypeOK
    <3> QED BY <3>1 DEF IInv, TypeOK
  <2> QED BY <2>1, <2>2, <2>3, <2>4 DEF IInv, TypeOK
<1>2. Business'
  BY DEF IInv, TypeOK, Business, Reader, OfSettings, OfBonus
<1>3. ASSUME NEW v \in Workers, v # w, job[v].pc # "idle", InOrder(Reader(v))
      PROVE  Reader(v) # Reader(w)
  BY <1>3 DEF IInv, Business, InOrder
<1>4. Fresh'
  <2> SUFFICES ASSUME NEW v \in Workers, InOrder(Reader(v))', job'[v].pc # "idle"
      PROVE /\ job'[v].pc \in {"save", "send"} => job'[v].copy.id = Stored(v)'.id
            /\ At(v, "save", {"toggle"})' => job'[v].copy.on = Flip(Stored(v)'.on, job'[v].wanted)
            /\ At(v, "save", {"bonus"})' => job'[v].copy.bonus = job'[v].wanted
            /\ At(v, "send", OfSettings)' => job'[v].copy.on = Stored(v)'.on
            /\ At(v, "send", OfBonus)' => job'[v].copy.bonus = Stored(v)'.bonus
    BY DEF Fresh, At
  <2>1. CASE v = w
    BY <2>1 DEF IInv, TypeOK, Jobs, Reader, Stored, At, InOrder, OfSettings, OfBonus
  <2>2. CASE v # w
    <3>1. job'[v] = job[v] /\ InOrder(Reader(v)) /\ job[v].pc # "idle"
      BY <2>2 DEF IInv, TypeOK, InOrder, Reader
    <3>2. Stored(v)' = Stored(v)
      BY <1>3, <2>2, <3>1 DEF IInv, TypeOK, Jobs, Stored, Reader
    <3> QED BY <3>1, <3>2 DEF IInv, Fresh, At
  <2> QED BY <2>1, <2>2
<1> QED BY <1>1, <1>2, <1>4 DEF IInv

-----------------------------------------------------------------------------
\* One case per action.
LEMMA StepInv == ASSUME IInv, [Next]_vars PROVE IInv'
<1> USE BoundsAssumption
<1>1. CASE UNCHANGED vars
  BY <1>1 DEF vars, IInv, TypeOK, Business, Fresh, Reader, Stored, At, InOrder
<1>2. ASSUME NEW w \in Workers, Receive(w) PROVE IInv'
  <2>1. PICK u \in Users, op \in Ops : <<u, w>> \in Routes /\ \E x \in Wanted(op) :
          job' = [job EXCEPT ![w] =
            [Idle EXCEPT !.pc = "begin", !.op = op, !.user = u, !.wanted = x]]
    BY <1>2 DEF Receive
  <2>2. PICK x \in Wanted(op) : job' = [job EXCEPT ![w] =
            [Idle EXCEPT !.pc = "begin", !.op = op, !.user = u, !.wanted = x]]
    BY <2>1
  <2> DEFINE j == [Idle EXCEPT !.pc = "begin", !.op = op, !.user = u, !.wanted = x]
  <2>3. x \in Switches \cup Bonuses \cup {"none"}
    BY DEF Wanted, Ops
  <2>4. j \in Jobs /\ j.pc = "begin" /\ j.op = op /\ j.user = u /\ j.wanted = x
    BY <2>3, IdleType DEF Jobs
  <2> HIDE DEF j
  <2>5. job' = [job EXCEPT ![w] = j]
    BY <2>2 DEF j
  <2>6. received' \in 0 .. MaxUpdates /\ UNCHANGED <<row, shown, serial, faults>>
    BY <1>2 DEF Receive, IInv, TypeOK
  <2> QED BY <2>1, <2>4, <2>5, <2>6, OthersKeep DEF IInv, TypeOK
<1>3. ASSUME NEW w \in Workers, Start(w) PROVE IInv'
  <2>1. CASE Stored(w).id = 0
    <3>1. PICK b \in Bonuses :
            row' = [row EXCEPT ![Reader(w)] = [NoRow EXCEPT !.id = serial, !.bonus = b]]
      BY <1>3, <2>1 DEF Start
    <3> DEFINE r == [NoRow EXCEPT !.id = serial, !.bonus = b]
    <3>2. r \in Rows /\ r.id = serial
      BY NoRowType DEF Rows, IInv, TypeOK
    <3> HIDE DEF r
    <3>3. row' = [row EXCEPT ![Reader(w)] = r]
      BY <3>1 DEF r
    <3>4. /\ serial' = serial + 1 /\ serial \in Nat /\ UNCHANGED <<shown, received, faults>>
          /\ job' = [job EXCEPT ![w] = Idle] /\ job[w].pc # "idle"
      BY <1>3, <2>1 DEF Start, Done, At, IInv, TypeOK
    <3>5. serial' \in Nat /\ serial <= serial' /\ r.id < serial'
      BY <3>2, <3>4
    <3> QED
      BY <3>2, <3>3, <3>4, <3>5, IdleType, RowChanges
  <2>2. CASE Stored(w).id # 0
    BY <1>3, <2>2, DoneKeeps DEF Start, IInv, TypeOK
  <2> QED BY <2>1, <2>2
<1>4. ASSUME NEW w \in Workers, DeleteData(w) PROVE IInv'
  <2>1. /\ UNCHANGED <<shown, serial, received, faults>> /\ job[w].pc # "idle"
        /\ row' = [row EXCEPT ![Reader(w)] = NoRow] /\ job' = [job EXCEPT ![w] = Idle]
    BY <1>4 DEF DeleteData, Done, At
  <2>2. serial' \in Nat /\ serial <= serial' /\ NoRow.id < serial'
    BY <2>1, NoRowType DEF IInv, TypeOK
  <2> QED BY <2>1, <2>2, NoRowType, IdleType, RowChanges
<1>5. ASSUME NEW w \in Workers, NotAMember(w) PROVE IInv'
  BY <1>5, DoneKeeps DEF NotAMember, IInv, TypeOK
<1>6. ASSUME NEW w \in Workers, ReadPage(w) PROVE IInv'
  <2> DEFINE j == [job[w] EXCEPT !.pc = "send", !.copy = Stored(w)]
  <2>1. j \in Jobs /\ j.pc = "send" /\ j.op \in {"show", "choice"} /\ j.user = Reader(w)
          /\ j.op = job[w].op /\ j.wanted = job[w].wanted /\ j.copy = Stored(w)
    BY <1>6 DEF ReadPage, At, IInv, TypeOK, Jobs, Stored, Reader
  <2>2. job' = [job EXCEPT ![w] = j] /\ Stored(w).id \in 1 .. serial - 1
    BY <1>6, StoredType DEF ReadPage, Goto, IInv
  <2> HIDE DEF j
  <2> QED BY <1>6, <2>1, <2>2, OthersKeep
    DEF ReadPage, At, IInv, TypeOK, Business, Stored, Reader, OfSettings, OfBonus
<1>7. ASSUME NEW w \in Workers, ReadToggle(w) PROVE IInv'
  <2> DEFINE c == [Stored(w) EXCEPT !.on = Flip(@, job[w].wanted)]
  <2> DEFINE j == [job[w] EXCEPT !.pc = "save", !.copy = c]
  <2>0. job[w].wanted \in Switches /\ Stored(w) \in Rows
    BY <1>7 DEF ReadToggle, At, IInv, Business, TypeOK, Wanted, Stored, Reader, Jobs
  <2>1. c \in Rows /\ c.id = Stored(w).id /\ c.on = Flip(Stored(w).on, job[w].wanted)
    BY <2>0, FlipType DEF Rows
  <2> HIDE DEF c
  <2>2. j \in Jobs /\ j.pc = "save" /\ j.op = "toggle" /\ j.user = Reader(w)
          /\ j.wanted = job[w].wanted /\ j.copy = c
    BY <1>7, <2>1 DEF ReadToggle, At, IInv, TypeOK, Jobs, Reader
  <2>3. job' = [job EXCEPT ![w] = j] /\ c.id \in 1 .. serial - 1
    BY <1>7, <2>1, StoredType DEF ReadToggle, Goto, IInv, c
  <2> HIDE DEF j
  <2> QED BY <1>7, <2>1, <2>2, <2>3, OthersKeep
    DEF ReadToggle, At, IInv, TypeOK, Business, Stored, Reader
<1>8. ASSUME NEW w \in Workers, ReadBonus(w) PROVE IInv'
  <2>1. CASE Stored(w).bonus = job[w].wanted
    BY <1>8, <2>1, DoneKeeps DEF ReadBonus, IInv, TypeOK
  <2>2. CASE Stored(w).bonus # job[w].wanted
    <3> DEFINE c == [Stored(w) EXCEPT !.bonus = job[w].wanted]
    <3> DEFINE j == [job[w] EXCEPT !.pc = "save", !.copy = c]
    <3>0. job[w].wanted \in Bonuses /\ Stored(w) \in Rows
      BY <1>8 DEF ReadBonus, At, IInv, Business, TypeOK, Wanted, Stored, Reader, Jobs
    <3>1. c \in Rows /\ c.id = Stored(w).id /\ c.bonus = job[w].wanted
      BY <3>0 DEF Rows
    <3>2. job' = [job EXCEPT ![w] = j] /\ c.id \in 1 .. serial - 1
      BY <1>8, <2>2, <3>1, StoredType DEF ReadBonus, Goto, IInv
    <3> HIDE DEF c
    <3>3. j \in Jobs /\ j.pc = "save" /\ j.op = "bonus" /\ j.user = Reader(w)
            /\ j.wanted = job[w].wanted /\ j.copy = c
      BY <1>8, <3>1 DEF ReadBonus, At, IInv, TypeOK, Jobs, Reader
    <3> HIDE DEF j
    <3> QED BY <1>8, <3>1, <3>2, <3>3, OthersKeep
      DEF ReadBonus, At, IInv, TypeOK, Business, Stored, Reader
  <2> QED BY <2>1, <2>2
<1>9. ASSUME NEW w \in Workers, SaveToggle(w) PROVE IInv'
  <2> DEFINE j == [job[w] EXCEPT !.pc = "send", !.copy = job[w].copy]
  <2> DEFINE r == [Stored(w) EXCEPT !.on = job[w].copy.on]
  <2>0. job[w] \in Jobs /\ Stored(w) \in Rows /\ Reader(w) \in Users
    BY DEF IInv, TypeOK, Jobs, Stored, Reader
  <2>1. j \in Jobs /\ j.pc = "send" /\ j.op = "toggle" /\ j.user = Reader(w)
          /\ j.wanted = job[w].wanted /\ j.copy = job[w].copy
    BY <1>9, <2>0 DEF SaveToggle, At, Jobs, Reader
  <2>2. job' = [job EXCEPT ![w] = j]
    BY <1>9 DEF SaveToggle, Goto, IInv, TypeOK
  <2>3. job[w].copy.id \in 1 .. serial - 1
    BY <1>9 DEF SaveToggle, At, IInv, TypeOK
  <2> HIDE DEF j
  <2>4. CASE SameRow(w)
    <3>1. r \in Rows /\ r.id = Stored(w).id /\ r.on = job[w].copy.on
      BY <2>0 DEF Rows, Jobs
    <3>2. row' = [row EXCEPT ![Reader(w)] = r]
      BY <1>9, <2>4 DEF SaveToggle, Stored, IInv, TypeOK
    <3>3. r.id < serial
      BY <3>1, <2>0 DEF IInv, TypeOK, Stored
    <3> HIDE DEF r
    <3>4. /\ UNCHANGED <<shown, serial, received, faults>> /\ job[w].pc # "idle"
          /\ job[w].op = "toggle" /\ serial' \in Nat /\ serial <= serial'
          /\ job[w].copy.id = r.id
      BY <1>9, <2>4, <3>1 DEF SaveToggle, At, SameRow, IInv, TypeOK
    <3> QED BY <2>1, <2>2, <2>3, <3>1, <3>2, <3>3, <3>4, RowChanges
  <2>5. CASE ~SameRow(w)
    <3>1. ~InOrder(Reader(w))
      BY <1>9, <2>5 DEF SaveToggle, At, SameRow, IInv, Fresh
    <3>2. row' = row
      BY <1>9, <2>5 DEF SaveToggle
    <3> QED BY <1>9, <2>0, <2>1, <2>2, <2>3, <3>1, <3>2, OthersKeep
      DEF SaveToggle, At, IInv, TypeOK, Business, OfSettings
  <2> QED BY <2>4, <2>5
<1>10. ASSUME NEW w \in Workers, SaveBonus(w) PROVE IInv'
  <2> DEFINE j == [job[w] EXCEPT !.pc = "send", !.copy = job[w].copy]
  <2> DEFINE r == [Stored(w) EXCEPT !.bonus = job[w].wanted]
  <2>0. job[w] \in Jobs /\ job[w].wanted \in Bonuses /\ Stored(w) \in Rows
          /\ Reader(w) \in Users
    BY <1>10 DEF SaveBonus, At, IInv, Business, TypeOK, Wanted, Stored, Reader, Jobs
  <2>1. j \in Jobs /\ j.pc = "send" /\ j.op = "bonus" /\ j.user = Reader(w)
          /\ j.wanted = job[w].wanted /\ j.copy = job[w].copy
    BY <1>10, <2>0 DEF SaveBonus, At, Jobs, Reader
  <2>2. job' = [job EXCEPT ![w] = j]
    BY <1>10 DEF SaveBonus, Goto, IInv, TypeOK
  <2>3. job[w].copy.id \in 1 .. serial - 1
    BY <1>10 DEF SaveBonus, At, IInv, TypeOK
  <2> HIDE DEF j
  <2>4. CASE SameRow(w)
    <3>1. r \in Rows /\ r.id = Stored(w).id /\ r.bonus = job[w].wanted
      BY <2>0 DEF Rows
    <3>2. row' = [row EXCEPT ![Reader(w)] = r]
      BY <1>10, <2>4 DEF SaveBonus, Stored, IInv, TypeOK
    <3>3. r.id < serial
      BY <3>1, <2>0 DEF IInv, TypeOK, Stored
    <3> HIDE DEF r
    <3>4. /\ UNCHANGED <<shown, serial, received, faults>> /\ job[w].pc # "idle"
          /\ job[w].op = "bonus" /\ serial' \in Nat /\ serial <= serial'
          /\ job[w].copy.id = r.id
      BY <1>10, <2>4, <3>1 DEF SaveBonus, At, SameRow, IInv, TypeOK
    <3>5. InOrder(Reader(w)) => job[w].copy.bonus = r.bonus
      BY <1>10, <3>1 DEF SaveBonus, At, IInv, Fresh
    <3> QED BY <2>1, <2>2, <2>3, <3>1, <3>2, <3>3, <3>4, <3>5, RowChanges
  <2>5. CASE ~SameRow(w)
    <3>1. ~InOrder(Reader(w))
      BY <1>10, <2>5 DEF SaveBonus, At, SameRow, IInv, Fresh
    <3>2. row' = row
      BY <1>10, <2>5 DEF SaveBonus
    <3> QED BY <1>10, <2>0, <2>1, <2>2, <2>3, <3>1, <3>2, OthersKeep
      DEF SaveBonus, At, IInv, TypeOK, Business, OfBonus
  <2> QED BY <2>4, <2>5
<1>11. ASSUME NEW w \in Workers, SendKeyboard(w) PROVE IInv'
  <2>1. shown' \in [Users -> Keyboards]
    BY <1>11 DEF SendKeyboard, IInv, TypeOK, Jobs, Rows, Keyboards, Reader
  <2> QED BY <1>11, <2>1, DoneKeeps DEF SendKeyboard, IInv, TypeOK
<1>12. ASSUME NEW w \in Workers, SendChoice(w) PROVE IInv'
  <2>1. shown' \in [Users -> Keyboards]
    BY <1>12 DEF SendChoice, IInv, TypeOK, Jobs, Rows, Keyboards, Reader
  <2> QED BY <1>12, <2>1, DoneKeeps DEF SendChoice, IInv, TypeOK
<1>13. ASSUME NEW w \in Workers, Fail(w) PROVE IInv'
  BY <1>13, DoneKeeps DEF Fail, IInv, TypeOK
<1> QED
  BY <1>1, <1>2, <1>3, <1>4, <1>5, <1>6, <1>7, <1>8, <1>9, <1>10, <1>11, <1>12, <1>13
  DEF Next, Handle

LEMMA Inductive == Spec => []IInv
BY InitInv, StepInv, PTL DEF Spec

\* Every variable keeps its type, and ids come from the sequence.
THEOREM TypeCorrect == Spec => []TypeOK
<1>1. IInv => TypeOK
  BY DEF IInv
<1> QED BY <1>1, Inductive, PTL

-----------------------------------------------------------------------------
\* Which steps change the rows: the account comes or goes, or a handler saves to
\* the row that it read.
LEMMA RowSteps ==
  ASSUME TypeOK, Next, NEW u \in Users, Kept(u), row'[u] # row[u]
  PROVE  \E w \in Workers :
           /\ Reader(w) = u /\ SameRow(w)
           /\ \/ SaveToggle(w) /\ row'[u] = [row[u] EXCEPT !.on = job[w].copy.on]
              \/ SaveBonus(w) /\ row'[u] = [row[u] EXCEPT !.bonus = job[w].wanted]
<1>1. PICK w \in Workers : Receive(w) \/ Handle(w) \/ Fail(w)
  BY DEF Next
<1>2. CASE Start(w)
  BY <1>2 DEF Start, Kept, Stored, Reader, TypeOK
<1>3. CASE DeleteData(w)
  BY <1>3, NoRowType DEF DeleteData, Kept, Reader, TypeOK
<1>4. CASE SaveToggle(w)
  BY <1>4 DEF SaveToggle, Reader, TypeOK
<1>5. CASE SaveBonus(w)
  BY <1>5 DEF SaveBonus, Reader, TypeOK
<1>6. CASE Receive(w) \/ Fail(w) \/ NotAMember(w) \/ ReadPage(w) \/ ReadToggle(w)
             \/ ReadBonus(w) \/ SendKeyboard(w) \/ SendChoice(w)
  BY <1>6 DEF Receive, Fail, NotAMember, ReadPage, ReadToggle, ReadBonus, SendKeyboard,
    SendChoice
<1> QED BY <1>1, <1>2, <1>3, <1>4, <1>5, <1>6 DEF Handle

\* A switch handler that saves an old copy of the row does not bring back a kind
\* of bonus that was chosen in the meantime (toggles.go:74-81).
THEOREM ChosenBonus == Spec => BonusIsChosen
<1> DEFINE A == \A u \in Users : Kept(u) /\ row'[u].bonus # row[u].bonus =>
                  \E w \in Workers : At(w, "save", {"bonus"}) /\ Reader(w) = u
                                       /\ job[w].copy.id = row[u].id
                                       /\ row'[u].bonus = job[w].wanted
<1>1. ASSUME IInv, [Next]_vars PROVE [A]_vars
  <2> SUFFICES ASSUME Next, NEW u \in Users, Kept(u), row'[u].bonus # row[u].bonus
      PROVE \E w \in Workers : At(w, "save", {"bonus"}) /\ Reader(w) = u
                                 /\ job[w].copy.id = row[u].id
                                 /\ row'[u].bonus = job[w].wanted
    BY <1>1 DEF vars
  <2>1. row[u] \in Rows
    BY <1>1 DEF IInv, TypeOK
  <2>2. PICK w \in Workers :
           /\ Reader(w) = u /\ SameRow(w)
           /\ \/ SaveToggle(w) /\ row'[u] = [row[u] EXCEPT !.on = job[w].copy.on]
              \/ SaveBonus(w) /\ row'[u] = [row[u] EXCEPT !.bonus = job[w].wanted]
    BY <1>1, RowSteps DEF IInv
  <2> QED BY <2>1, <2>2 DEF SaveBonus, SameRow, Stored, Rows
<1> QED BY <1>1, Inductive, PTL DEF Spec, BonusIsChosen

\* When one worker has all updates of a user, each press turns the switch that was
\* pressed and no other, whatever failed before (toggles.go:63-83).
THEOREM OneTurned == Spec => PressTurnsOne
<1> DEFINE A == \A u \in Users : InOrder(u) /\ Kept(u) /\ row'[u].on # row[u].on =>
                  \E w \in Workers : At(w, "save", {"toggle"}) /\ Reader(w) = u
                                       /\ row'[u].on = Flip(row[u].on, job[w].wanted)
<1>1. ASSUME IInv, [Next]_vars PROVE [A]_vars
  <2> SUFFICES ASSUME Next, NEW u \in Users, InOrder(u), Kept(u), row'[u].on # row[u].on
      PROVE \E w \in Workers : At(w, "save", {"toggle"}) /\ Reader(w) = u
                                 /\ row'[u].on = Flip(row[u].on, job[w].wanted)
    BY <1>1 DEF vars
  <2>1. row[u] \in Rows
    BY <1>1 DEF IInv, TypeOK
  <2>2. PICK w \in Workers :
           /\ Reader(w) = u /\ SameRow(w)
           /\ \/ SaveToggle(w) /\ row'[u] = [row[u] EXCEPT !.on = job[w].copy.on]
              \/ SaveBonus(w) /\ row'[u] = [row[u] EXCEPT !.bonus = job[w].wanted]
    BY <1>1, RowSteps DEF IInv
  <2>3. SaveToggle(w) /\ row'[u].on = job[w].copy.on
    BY <2>1, <2>2 DEF Rows
  <2>4. job[w].copy.on = Flip(row[u].on, job[w].wanted)
    BY <1>1, <2>2, <2>3 DEF IInv, Fresh, SaveToggle, Stored, At
  <2> QED BY <2>2, <2>3, <2>4 DEF SaveToggle
<1> QED BY <1>1, Inductive, PTL DEF Spec, PressTurnsOne

\* When one worker has all updates of a user, every keyboard he is sent has the
\* switches as they are stored then (toggles.go:87-92), or has ticked the kind of
\* bonus that is stored (referral.go:349-353, 408-412).
THEOREM TrueKeyboard == Spec => ShownIsStored
<1> DEFINE A == \A u \in Users : InOrder(u) =>
                  /\ shown'[u].on # shown[u].on => shown'[u].on = row[u].on
                  /\ shown'[u].bonus # shown[u].bonus => shown'[u].bonus = row[u].bonus
<1>1. ASSUME IInv, [Next]_vars PROVE [A]_vars
  <2> SUFFICES ASSUME Next, NEW u \in Users, InOrder(u), shown'[u] # shown[u]
      PROVE /\ shown'[u].on # shown[u].on => shown'[u].on = row[u].on
            /\ shown'[u].bonus # shown[u].bonus => shown'[u].bonus = row[u].bonus
    BY <1>1 DEF vars
  <2>1. shown \in [Users -> Keyboards] /\ shown[u] \in Keyboards
    BY <1>1 DEF IInv, TypeOK
  <2>2. PICK w \in Workers : SendKeyboard(w) \/ SendChoice(w)
    BY DEF Next, Receive, Handle, Fail, Start, DeleteData, NotAMember, ReadPage,
      ReadToggle, ReadBonus, SaveToggle, SaveBonus
  <2>3. CASE SendKeyboard(w)
    <3>1. Reader(w) = u /\ shown'[u] = [shown[u] EXCEPT !.on = job[w].copy.on]
      BY <2>1, <2>3 DEF SendKeyboard
    <3>2. shown'[u].on = job[w].copy.on /\ shown'[u].bonus = shown[u].bonus
      BY <2>1, <3>1 DEF Keyboards
    <3> QED BY <1>1, <2>3, <3>1, <3>2 DEF SendKeyboard, IInv, Fresh, Stored
  <2>4. CASE SendChoice(w)
    <3>1. Reader(w) = u /\ shown'[u] = [shown[u] EXCEPT !.bonus = job[w].copy.bonus]
      BY <2>1, <2>4 DEF SendChoice
    <3>2. shown'[u].bonus = job[w].copy.bonus /\ shown'[u].on = shown[u].on
      BY <2>1, <3>1 DEF Keyboards
    <3> QED BY <1>1, <2>4, <3>1, <3>2 DEF SendChoice, IInv, Fresh, Stored
  <2> QED BY <2>2, <2>3, <2>4
<1> QED BY <1>1, Inductive, PTL DEF Spec, ShownIsStored
=============================================================================
