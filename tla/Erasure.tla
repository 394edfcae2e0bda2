-------------------------------- MODULE Erasure --------------------------------
(***************************************************************************)
(* What "delete my data" promises, whatever else happens meanwhile: nothing*)
(* about an account vanishes before the account itself does, and then all  *)
(* that was there when the deletion began goes in the same moment.  What is*)
(* written about the account later may stay.                               *)
(***************************************************************************)
EXTENDS Naturals

CONSTANTS
  Accounts, \* ids of accounts
  NoAccount,
  Handlers  \* whoever carries out deletions

VARIABLES
  members, \* the accounts there are
  data,    \* what is stored about them: records with a set "of" of accounts
  erasing, \* the account each handler is deleting
  marked   \* what there was about it when it began

vars == <<members, data, erasing, marked>>

About(a) == {r \in data : a \in r.of}

Init ==
  /\ members \subseteq Accounts
  /\ \A r \in data : r.of \subseteq members
  /\ erasing = [h \in Handlers |-> NoAccount]
  /\ marked = [h \in Handlers |-> {}]

\* A new account, with what is written about it in the same transaction.
Join(a) ==
  /\ a \notin members
  /\ members' = members \cup {a}
  /\ data \subseteq data'
  /\ \A r \in data' \ data : a \in r.of
  /\ UNCHANGED <<erasing, marked>>

\* Something is written about accounts, who may be gone by now.
Write ==
  /\ data \subseteq data'
  /\ UNCHANGED <<members, erasing, marked>>

Begin(h, a) ==
  /\ erasing[h] = NoAccount
  /\ a \in members
  /\ erasing' = [erasing EXCEPT ![h] = a]
  /\ marked' = [marked EXCEPT ![h] = About(a)]
  /\ UNCHANGED <<members, data>>

Ended(h) ==
  /\ erasing[h] # NoAccount
  /\ erasing' = [erasing EXCEPT ![h] = NoAccount]
  /\ marked' = [marked EXCEPT ![h] = {}]

Erase(h) ==
  /\ Ended(h)
  /\ members' = members \ {erasing[h]}
  /\ data' \subseteq data \ marked[h]
  /\ data \ data' \subseteq About(erasing[h])

GiveUp(h) == Ended(h) /\ UNCHANGED <<members, data>>

Next ==
  \/ Write
  \/ \E a \in Accounts : Join(a)
  \/ \E h \in Handlers : Erase(h) \/ GiveUp(h) \/ \E a \in Accounts : Begin(h, a)

Spec == Init /\ [][Next]_vars
=============================================================================
