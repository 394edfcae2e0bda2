------------------------ MODULE MC_ReferralProgram ------------------------
(***************************************************************************)
(* Instances of ReferralProgram for TLC: an inviter who is a member from   *)
(* the start, and guests who may join with his code.                       *)
(***************************************************************************)
EXTENDS ReferralProgram, TLC

CONSTANTS ann, bob, cat, dan, w1, w2

Upd(op, u, code, p) == [op |-> op, user |-> u, code |-> code, pref |-> p]

Joins(guests, inviter) == {Upd("start", u, inviter, "money") : u \in guests}
Connections(guests) ==
  {Upd(op, u, Nobody, "money") : op \in {"connect", "disconnect"}, u \in guests}
Switches(u) == {Upd("bonus", u, Nobody, p) : p \in {"money", "levels"}}
Deletions(us) == {Upd("delete", u, Nobody, "money") : u \in us}

AnnIsMember == [u \in Users |-> IF u = ann THEN 1 ELSE 0]

SomeIds == 1 .. 12

\* One worker: long histories of an inviter and his guests.
OneWorkerRoutes == Users \X {w1}
OneWorkerUpdates ==
  Joins({bob, cat}, ann) \cup Connections({bob, cat}) \cup Switches(ann)
    \cup Deletions({ann, bob})
    \cup {Upd("start", bob, Nobody, "money"), Upd("start", bob, cat, "money"), Upd("start", ann, bob, "money")}

\* Two workers, any update on any of them.
TwoWorkerRoutes == Users \X {w1, w2}
TwoWorkerUpdates ==
  Joins({bob, cat}, ann) \cup Connections({bob}) \cup Deletions({ann, bob})
    \cup {Upd("bonus", ann, Nobody, "money")}

\* Guests only come, connect and disconnect.
LevelUpdates == Joins({bob, cat, dan}, ann) \cup Connections({bob, cat, dan})
=============================================================================
