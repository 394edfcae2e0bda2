---------------------------- MODULE MC_DeleteData ----------------------------
\* Instances of DeleteData for TLC: ann is a member, bob may come with her code.
EXTENDS DeleteData, TLC

CONSTANTS ann, bob, w1, w2

JustAnn == (ann :> 1) @@ (bob :> 0)
AnyRoute == Users \X Workers
Ids1to8 == 1 .. 8

Update(op, user, other, table) ==
  [op |-> op, user |-> user, other |-> other, table |-> table]

AnnLeaves ==
  {Update(op, u, Nobody, "mirrors") : op \in {"ask", "confirm", "cancel"}, u \in Users}
    \cup {Update("start", bob, ann, "mirrors"), Update("start", ann, Nobody, "mirrors"),
          Update("write", ann, ann, "mirrors"), Update("write", bob, ann, "userlevels")}
=============================================================================
