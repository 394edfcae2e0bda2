------------------------------- MODULE Settings -------------------------------
(***************************************************************************)
(* The row of usersettings: the settings page and its four switches        *)
(* (endpoints/settings), and the kind of referral bonus, which another     *)
(* endpoint keeps in the same row and offers on a page of its own          *)
(* (endpoints/referral).                                                   *)
(*                                                                         *)
(* A handler reads the row in one statement and writes some of its columns *)
(* in another, with no transaction around the two; what another worker did *)
(* in between is not seen.                                                 *)
(***************************************************************************)
EXTENDS Integers

CONSTANTS
  Users,      \* Telegram users
  Workers,    \* routing goroutines
  Routes,     \* <<user, worker>> pairs: which worker may get whose updates
  Switches,   \* the switches of the page, columns of the row
  Bonuses,    \* values of referral_bonus_preference
  MaxUpdates, \* bound: updates received
  MaxFaults   \* bound: failed statements and emissions, killed pods

ASSUME RoutesAssumption == Routes \subseteq Users \X Workers
ASSUME BonusesAssumption == Bonuses # {} /\ "none" \notin Switches \cup Bonuses
ASSUME UsersAssumption == Users # {}
ASSUME BoundsAssumption == MaxUpdates \in Nat /\ MaxFaults \in Nat

VARIABLES
  row,      \* each user's row of usersettings; id 0 when there is none
  shown,    \* each user's keyboards as they were sent last: switches, kind of bonus
  job,      \* what each worker is doing
  serial,   \* the next value of the id sequence
  received, \* updates received so far
  faults    \* faults so far

vars == <<row, shown, job, serial, received, faults>>

\* A press of one switch.
Flip(on, s) == [on EXCEPT ![s] = ~@]

Positions == [Switches -> BOOLEAN]
Keyboards == [on : Positions, bonus : Bonuses \cup {"none"}]
Rows == [id : Nat, on : Positions, bonus : Bonuses]

\* What an update asks for: a switch, a kind of bonus, or "none" of them.
Wanted(op) ==
  CASE op = "toggle" -> Switches
    [] op = "bonus" -> Bonuses
    [] OTHER -> {"none"}

Ops == {"start", "delete", "show", "toggle", "choice", "bonus"}

\* The updates that end with a keyboard: the settings page, the choice of a bonus.
OfSettings == {"show", "toggle"}
OfBonus == {"choice", "bonus"}

NoRow == [id |-> 0, on |-> [s \in Switches |-> FALSE],
          bonus |-> CHOOSE b \in Bonuses : TRUE]

Idle == [pc |-> "idle", op |-> "none", user |-> CHOOSE u \in Users : TRUE,
         wanted |-> "none", copy |-> NoRow]

At(w, pc, ops) == job[w].pc = pc /\ job[w].op \in ops
Reader(w) == job[w].user
Stored(w) == row[Reader(w)]

Goto(w, pc, copy) == job' = [job EXCEPT ![w].pc = pc, ![w].copy = copy]
Done(w) == job' = [job EXCEPT ![w] = Idle]

Init ==
  /\ row = [u \in Users |-> NoRow]
  /\ shown = [u \in Users |-> [on |-> NoRow.on, bonus |-> "none"]]
  /\ job = [w \in Workers |-> Idle]
  /\ serial = 1
  /\ received = 0
  /\ faults = 0

Receive(w) ==
  /\ job[w] = Idle
  /\ received < MaxUpdates
  /\ \E u \in Users, op \in Ops :
        /\ <<u, w>> \in Routes
        /\ \E x \in Wanted(op) :
             job' = [job EXCEPT ![w] =
               [Idle EXCEPT !.pc = "begin", !.op = op, !.user = u, !.wanted = x]]
  /\ received' = received + 1
  /\ UNCHANGED <<row, shown, serial, faults>>

-----------------------------------------------------------------------------
(* The row comes with the account and goes with it.                        *)

\* Variant of Start: the next row gets the same id.
StartReusedId(w) ==
  /\ At(w, "begin", {"start"})
  /\ IF Stored(w).id = 0
       THEN \E b \in Bonuses :
              row' = [row EXCEPT ![Reader(w)] = [NoRow EXCEPT !.id = serial, !.bonus = b]]
       ELSE UNCHANGED row
  /\ Done(w)
  /\ UNCHANGED <<shown, serial, received, faults>>

\* run (start/messages.go): GetOrCreate, with the defaults of the schema.
Start(w) ==
  /\ At(w, "begin", {"start"})
  /\ IF Stored(w).id = 0
       THEN /\ \E b \in Bonuses :
                 row' = [row EXCEPT ![Reader(w)] = [NoRow EXCEPT !.id = serial, !.bonus = b]]
            /\ serial' = serial + 1
       ELSE UNCHANGED <<row, serial>>
  /\ Done(w)
  /\ UNCHANGED <<shown, received, faults>>

\* runDeleteConfirm: the row goes with the account.
DeleteData(w) ==
  /\ At(w, "begin", {"delete"})
  /\ row' = [row EXCEPT ![Reader(w)] = NoRow]
  /\ Done(w)
  /\ UNCHANGED <<shown, serial, received, faults>>

-----------------------------------------------------------------------------
(* Reading the row, GetUserByTgIDWithSettings.                             *)

\* No row, no answer.
NotAMember(w) ==
  /\ At(w, "begin", OfSettings \cup OfBonus)
  /\ Stored(w).id = 0
  /\ Done(w)
  /\ UNCHANGED <<row, shown, serial, received, faults>>

\* runShowSettings, runBonusSelect: the page is built from the row as it was read.
ReadPage(w) ==
  /\ At(w, "begin", {"show", "choice"})
  /\ Stored(w).id # 0
  /\ Goto(w, "send", Stored(w))
  /\ UNCHANGED <<row, shown, serial, received, faults>>

\* Variant of ReadToggle: the keyboard that was pressed tells the positions.
ReadKeyboard(w) ==
  /\ At(w, "begin", {"toggle"})
  /\ Stored(w).id # 0
  /\ Goto(w, "save", [Stored(w) EXCEPT !.on = Flip(shown[Reader(w)].on, job[w].wanted)])
  /\ UNCHANGED <<row, shown, serial, received, faults>>

\* runToggle: the row, with the switch that was pressed turned in memory.
ReadToggle(w) ==
  /\ At(w, "begin", {"toggle"})
  /\ Stored(w).id # 0
  /\ Goto(w, "save", [Stored(w) EXCEPT !.on = Flip(@, job[w].wanted)])
  /\ UNCHANGED <<row, shown, serial, received, faults>>

\* makeBonusTypeHandler: nothing to save when this kind is chosen already.
ReadBonus(w) ==
  /\ At(w, "begin", {"bonus"})
  /\ Stored(w).id # 0
  /\ IF Stored(w).bonus = job[w].wanted
       THEN Done(w)
       ELSE Goto(w, "save", [Stored(w) EXCEPT !.bonus = job[w].wanted])
  /\ UNCHANGED <<row, shown, serial, received, faults>>

-----------------------------------------------------------------------------
(* Writing it back: UPDATE ... WHERE id, of the columns that are named.    *)

SameRow(w) == Stored(w).id = job[w].copy.id

\* Variant of SaveToggle: all columns are written.
SaveWholeRow(w) ==
  /\ At(w, "save", {"toggle"})
  /\ row' = IF SameRow(w) THEN [row EXCEPT ![Reader(w)] = job[w].copy] ELSE row
  /\ Goto(w, "send", job[w].copy)
  /\ UNCHANGED <<shown, serial, received, faults>>

\* runToggle: the four switches, whichever of them was pressed.  An UPDATE that
\* finds no row is no error.
SaveToggle(w) ==
  /\ At(w, "save", {"toggle"})
  /\ row' = IF SameRow(w) THEN [row EXCEPT ![Reader(w)].on = job[w].copy.on] ELSE row
  /\ Goto(w, "send", job[w].copy)
  /\ UNCHANGED <<shown, serial, received, faults>>

\* makeBonusTypeHandler: the one column.
SaveBonus(w) ==
  /\ At(w, "save", {"bonus"})
  /\ row' = IF SameRow(w) THEN [row EXCEPT ![Reader(w)].bonus = job[w].wanted] ELSE row
  /\ Goto(w, "send", job[w].copy)
  /\ UNCHANGED <<shown, serial, received, faults>>

\* Variant of SendKeyboard: the keyboard that was pressed is sent again.
SendOldKeyboard(w) ==
  /\ At(w, "send", OfSettings)
  /\ shown' = [shown EXCEPT ![Reader(w)].on =
       IF job[w].op = "toggle" THEN Flip(@, job[w].wanted) ELSE job[w].copy.on]
  /\ Done(w)
  /\ UNCHANGED <<row, serial, received, faults>>

\* Emit (the page), EmitEditMessage and EmitCallback (a switch).
SendKeyboard(w) ==
  /\ At(w, "send", OfSettings)
  /\ shown' = [shown EXCEPT ![Reader(w)].on = job[w].copy.on]
  /\ Done(w)
  /\ UNCHANGED <<row, serial, received, faults>>

\* buildBonusKeyboard: the kind that was read, or chosen, is ticked.
SendChoice(w) ==
  /\ At(w, "send", OfBonus)
  /\ shown' = [shown EXCEPT ![Reader(w)].bonus = job[w].copy.bonus]
  /\ Done(w)
  /\ UNCHANGED <<row, serial, received, faults>>

\* A statement or an emission fails, or the pod is killed.
Fail(w) ==
  /\ job[w].pc # "idle"
  /\ faults < MaxFaults
  /\ faults' = faults + 1
  /\ Done(w)
  /\ UNCHANGED <<row, shown, serial, received>>

-----------------------------------------------------------------------------
Handle(w) ==
  \/ Start(w) \/ DeleteData(w)
  \/ NotAMember(w) \/ ReadPage(w) \/ ReadToggle(w) \/ ReadBonus(w)
  \/ SaveToggle(w) \/ SaveBonus(w) \/ SendKeyboard(w) \/ SendChoice(w)

Next == \E w \in Workers : Receive(w) \/ Handle(w) \/ Fail(w)

Spec == Init /\ [][Next]_vars

-----------------------------------------------------------------------------
(* What is checked.                                                        *)

Jobs == [pc : {"idle", "begin", "save", "send"}, op : Ops \cup {"none"},
         user : Users, wanted : Switches \cup Bonuses \cup {"none"}, copy : Rows]

\* A row's id is one the sequence gave out; a handler works on a row that was
\* there when it read it.
TypeOK ==
  /\ row \in [Users -> Rows]
  /\ shown \in [Users -> Keyboards]
  /\ job \in [Workers -> Jobs]
  /\ serial \in Nat \ {0}
  /\ received \in 0 .. MaxUpdates
  /\ faults \in 0 .. MaxFaults
  /\ \A u \in Users : row[u].id < serial
  /\ \A w \in Workers : job[w].pc \in {"save", "send"} => job[w].copy.id \in 1 .. serial - 1

\* All updates of the user go to one worker.
InOrder(u) == \A v, w \in Workers : <<u, v>> \in Routes /\ <<u, w>> \in Routes => v = w

Kept(u) == row[u].id # 0 /\ row'[u].id = row[u].id

\* Whatever runs at the same time, the kind of bonus is only ever changed to one
\* that its user chose, and chose for this very row: the switches are saved column
\* by column, so that an old copy of the row does not bring an old preference back
\* (toggles.go:74-81), and a choice made before the account was deleted is not
\* carried into the next one (referral.go:402-407).
BonusIsChosen ==
  [][\A u \in Users : Kept(u) /\ row'[u].bonus # row[u].bonus =>
        \E w \in Workers : At(w, "save", {"bonus"}) /\ Reader(w) = u
                             /\ job[w].copy.id = row[u].id
                             /\ row'[u].bonus = job[w].wanted]_vars

\* A user whose updates are handled in order turns, with every press, the switch
\* that he pressed and no other, also after presses whose answer was lost.
PressTurnsOne ==
  [][\A u \in Users : InOrder(u) /\ Kept(u) /\ row'[u].on # row[u].on =>
        \E w \in Workers : At(w, "save", {"toggle"}) /\ Reader(w) = u
                             /\ row'[u].on = Flip(row[u].on, job[w].wanted)]_vars

\* A user whose updates are handled in order is shown what is stored: on the settings
\* page, and on the page of bonuses, whatever the other page saved meanwhile and
\* whichever answers were lost.
ShownIsStored ==
  [][\A u \in Users : InOrder(u) =>
       /\ shown'[u].on # shown[u].on => shown'[u].on = row[u].on
       /\ shown'[u].bonus # shown[u].bonus => shown'[u].bonus = row[u].bonus]_vars
=============================================================================
