------------------------- MODULE InvitationLifecycle -------------------------
(***************************************************************************)
(* What the referral programme promises about one invitation, whatever the *)
(* interleaving of handlers: an account gets its sponsor at the moment it  *)
(* joins or never, keeps that sponsor until the invitation is withdrawn,   *)
(* is rewarded only while it has one, and takes its own invitation with it *)
(* when it leaves.                                                         *)
(* ReferralProgram implements it (start/messages.go, businessConnection/   *)
(* referral.go, deleteData/deleteData.go).                                 *)
(***************************************************************************)
CONSTANTS
  Accounts,  \* ids of accounts
  NoAccount, \* not one of them
  Rewards    \* what a reward may be fixed to

VARIABLES
  member,  \* the accounts that exist
  sponsor, \* who invited each account, NoAccount for nobody
  reward   \* the reward fixed for the sponsor of an account

lifecycle == <<member, sponsor, reward>>

Init ==
  /\ member \subseteq Accounts
  /\ sponsor = [a \in Accounts |-> NoAccount]
  /\ reward = [a \in Accounts |-> "none"]

\* A new account, with a sponsor or without one.
Join(a, s) ==
  /\ a \notin member
  /\ sponsor[a] = NoAccount
  /\ s # a
  /\ member' = member \cup {a}
  /\ sponsor' = [sponsor EXCEPT ![a] = s]
  /\ reward' = [reward EXCEPT ![a] = IF s = NoAccount THEN "none" ELSE "pending"]

\* The invited person connects the bot.
FixReward(a, k) ==
  /\ a \in member
  /\ sponsor[a] # NoAccount
  /\ reward' = [reward EXCEPT ![a] = k]
  /\ UNCHANGED <<member, sponsor>>

\* The invited person disconnects it: no way back to this sponsor.
Withdraw(a) ==
  /\ sponsor[a] # NoAccount
  /\ sponsor' = [sponsor EXCEPT ![a] = NoAccount]
  /\ reward' = [reward EXCEPT ![a] = "none"]
  /\ UNCHANGED member

\* The account is deleted, with the invitation it got and those it made; what was
\* made while the deletion ran may stay behind.  The deletion may come twice.
Leave(a) ==
  \E stay \in SUBSET {b \in Accounts \ {a} : sponsor[b] = a} :
    LET ends == {b \in Accounts : b = a \/ sponsor[b] = a} \ stay
    IN /\ member' = member \ {a}
       /\ sponsor' = [b \in Accounts |-> IF b \in ends THEN NoAccount ELSE sponsor[b]]
       /\ reward' = [b \in Accounts |-> IF b \in ends THEN "none" ELSE reward[b]]

Next ==
  \E a \in Accounts :
    \/ \E s \in Accounts \cup {NoAccount} : Join(a, s)
    \/ \E k \in Rewards : FixReward(a, k)
    \/ Withdraw(a)
    \/ Leave(a)

Spec == Init /\ [][Next]_lifecycle
=============================================================================
