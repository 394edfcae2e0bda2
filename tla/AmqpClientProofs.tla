--------------------------- MODULE AmqpClientProofs ---------------------------
(***************************************************************************)
(* Theorems about AmqpClient for any number of goroutines, connections and *)
(* faults, checked by TLAPS.                                               *)
(***************************************************************************)
EXTENDS AmqpClient, FiniteSetTheorems, TLAPS

\* The step lemma of every theorem below: one case per action.
LEMMA TypeStep == ASSUME TypeOK, [Next]_vars PROVE TypeOK'
<1> USE ConnsAssumption, FaultsAssumption, NilAssumption DEF TypeOK, Conns, PCs, Critical, Goto
<1>1. CASE UNCHANGED vars
  BY <1>1 DEF vars
<1>2. ASSUME NEW g \in Goroutines, Call(g) PROVE TypeOK'
  BY <1>2 DEF Call
<1>3. ASSUME NEW g \in Goroutines, Lock(g) PROVE TypeOK'
  BY <1>3 DEF Lock
<1>4. ASSUME NEW g \in Goroutines, Connected(g) PROVE TypeOK'
  BY <1>4 DEF Connected
<1>5. ASSUME NEW g \in Goroutines, Dial(g) PROVE TypeOK'
  <2>1. dialed' \in Conns /\ conn' = conn /\ open' \subseteq 1 .. dialed'
    BY <1>5 DEF Dial
  <2>2. /\ pc' \in [Goroutines -> PCs]
        /\ got' \in [Goroutines -> Conns \cup {Nil}]
        /\ \A f \in Goroutines : mutex' = f <=> pc'[f] \in Critical
    BY <1>5, <2>1 DEF Dial
  <2> QED BY <1>5, <2>1, <2>2 DEF Dial
<1>6. ASSUME NEW g \in Goroutines, DialFails(g) PROVE TypeOK'
  BY <1>6 DEF DialFails
<1>7. ASSUME NEW g \in Goroutines, Read(g) PROVE TypeOK'
  BY <1>7 DEF Read
<1>8. ASSUME NEW g \in Goroutines, OpenChannel(g) PROVE TypeOK'
  BY <1>8 DEF OpenChannel
<1>9. ASSUME NEW g \in Goroutines, ChannelFails(g) PROVE TypeOK'
  BY <1>9 DEF ChannelFails
<1>10. ASSUME NEW g \in Goroutines, NilPanic(g) PROVE TypeOK'
  BY <1>10 DEF NilPanic
<1>11. ASSUME NEW g \in Goroutines, Forget(g) PROVE TypeOK'
  BY <1>11 DEF Forget
<1>12. CASE Lose
  BY <1>12 DEF Lose
<1>13. ASSUME NEW g \in Goroutines, Broken(g) PROVE TypeOK'
  BY <1>13 DEF Broken
<1>14. ASSUME NEW g \in Goroutines, Assign(g) PROVE TypeOK'
  <2>1. conn' \in Conns \cup {Nil} /\ got' \in [Goroutines -> Conns \cup {Nil}]
    BY <1>14 DEF Assign
  <2>2. /\ pc' \in [Goroutines -> PCs]
        /\ \A f \in Goroutines : mutex' = f <=> pc'[f] \in Critical
    BY <1>14 DEF Assign
  <2> QED BY <1>14, <2>1, <2>2 DEF Assign
<1> QED
  BY <1>1, <1>2, <1>3, <1>4, <1>5, <1>6, <1>7, <1>8, <1>9, <1>10, <1>11, <1>12, <1>13, <1>14
  DEF Next, Step

LEMMA TypeInit == Init => TypeOK
BY ConnsAssumption, FaultsAssumption, NilAssumption DEF Init, TypeOK, Conns, PCs, Critical

\* Every variable keeps its type, and the mutex is held exactly between taking it
\* and the return of connect (client.go:31-45).
THEOREM TypeCorrect == Spec => []TypeOK
BY TypeInit, TypeStep, PTL DEF Spec

-----------------------------------------------------------------------------
(* The dial.  What a goroutine has seen before it dials is still so when it *)
(* assigns, because nobody else writes c.conn while it holds the mutex.     *)

\* Only dialled connections are known to anybody.
Known ==
  /\ conn \in 1 .. dialed \cup {Nil}
  /\ \A g \in Goroutines : got[g] \in 1 .. dialed \cup {Nil}

\* While somebody dials the connection is broken, and what he has dialled is
\* known to nobody else.
Dialling ==
  /\ \A g \in Goroutines : pc[g] \in {"dial", "assign"} => ~Usable(conn)
  /\ \A g \in Goroutines : pc[g] = "assign" =>
        /\ got[g] # Nil /\ got[g] # conn
        /\ \A f \in Goroutines : got[f] = got[g] => f = g

DialInv == TypeOK /\ Known /\ Dialling

\* Nobody else is inside connect.
LEMMA OneInside ==
  ASSUME TypeOK, NEW g \in Goroutines, NEW f \in Goroutines,
         pc[g] \in Critical, mutex = Nil \/ pc[f] \in Critical
  PROVE  mutex = g /\ f = g
BY NilAssumption DEF TypeOK

LEMMA KnownStep == ASSUME TypeOK, Known, [Next]_vars PROVE Known'
<1> USE ConnsAssumption, NilAssumption DEF TypeOK, Known, Conns, Goto
<1>1. CASE UNCHANGED vars
  BY <1>1 DEF vars
<1>2. ASSUME NEW g \in Goroutines,
             \/ Call(g) \/ Lock(g) \/ Connected(g) \/ Broken(g) \/ DialFails(g)
             \/ ChannelFails(g) \/ NilPanic(g)
      PROVE  Known'
  BY <1>2 DEF Call, Lock, Connected, Broken, DialFails, ChannelFails, NilPanic
<1>3. ASSUME NEW g \in Goroutines, Dial(g) PROVE Known'
  <2>1. dialed' = dialed + 1 /\ conn' = conn /\ got' = [got EXCEPT ![g] = dialed + 1]
    BY <1>3 DEF Dial
  <2>2. 1 .. dialed \subseteq 1 .. dialed' /\ dialed + 1 \in 1 .. dialed'
    BY <2>1
  <2> QED BY <2>1, <2>2
<1>4. ASSUME NEW g \in Goroutines, Assign(g) \/ Read(g) \/ OpenChannel(g) \/ Forget(g)
      PROVE  Known'
  BY <1>4 DEF Assign, Read, OpenChannel, Forget
<1>5. CASE Lose
  BY <1>5 DEF Lose
<1> QED BY <1>1, <1>2, <1>3, <1>4, <1>5 DEF Next, Step

LEMMA DiallingStep == ASSUME DialInv, [Next]_vars PROVE Dialling'
<1>0. TypeOK /\ Known /\ Dialling /\ got \in [Goroutines -> Conns \cup {Nil}]
  BY DEF DialInv, TypeOK
<1>p. pc \in [Goroutines -> PCs]
  BY <1>0 DEF TypeOK
<1> USE DEF Goto
<1>1. CASE UNCHANGED vars
  BY <1>0, <1>1 DEF vars, Dialling, Usable
<1>2. ASSUME NEW g \in Goroutines,
             \/ Call(g) \/ Lock(g) \/ Connected(g) \/ Broken(g) \/ DialFails(g)
             \/ ChannelFails(g) \/ NilPanic(g)
      PROVE  Dialling'
  <2>1. conn' = conn /\ open' = open /\ got' = got
    BY <1>2 DEF Call, Lock, Connected, Broken, DialFails, ChannelFails, NilPanic
  <2>2. \A f \in Goroutines :
          /\ pc'[f] = "assign" => pc[f] = "assign"
          /\ pc'[f] \in {"dial", "assign"} => pc[f] \in {"dial", "assign"} \/ ~Usable(conn)
    BY <1>p, <1>2 DEF Call, Lock, Connected, Broken, DialFails, ChannelFails, NilPanic
  <2> QED BY <1>0, <2>1, <2>2 DEF Dialling, Usable
<1>3. ASSUME NEW g \in Goroutines, Dial(g) PROVE Dialling'
  <2>1. /\ pc[g] = "dial" /\ pc' = [pc EXCEPT ![g] = "assign"]
        /\ conn' = conn /\ open' = open \cup {dialed + 1}
        /\ got' = [got EXCEPT ![g] = dialed + 1]
        /\ dialed + 1 \in Conns
    BY <1>0, <1>3, ConnsAssumption DEF Dial, TypeOK, Conns
  <2>2. conn # dialed + 1 /\ dialed + 1 # Nil /\ \A f \in Goroutines : got[f] # dialed + 1
    BY <1>0, <2>1, NilAssumption DEF Known, TypeOK, Conns
  <2>3. \A f \in Goroutines : pc'[f] = "assign" => f = g
    BY <1>0, <1>p, <2>1, OneInside DEF Critical
  <2>4. ~Usable(conn)'
    BY <1>0, <2>1, <2>2 DEF Dialling, Usable
  <2> QED BY <1>0, <2>1, <2>2, <2>3, <2>4 DEF Dialling
<1>4. ASSUME NEW g \in Goroutines, Assign(g) PROVE Dialling'
  <2>1. \A f \in Goroutines : pc'[f] \notin {"dial", "assign"}
    BY <1>0, <1>p, <1>4, OneInside DEF Assign, Critical
  <2> QED BY <2>1 DEF Dialling
<1>5. ASSUME NEW g \in Goroutines, Read(g) \/ Forget(g) PROVE Dialling'
  <2>1. \A f \in Goroutines : pc'[f] \notin {"dial", "assign"}
    BY <1>0, <1>p, <1>5, OneInside DEF Read, Forget, Critical
  <2> QED BY <2>1 DEF Dialling
<1>6. ASSUME NEW g \in Goroutines, OpenChannel(g) PROVE Dialling'
  BY <1>0, <1>p, <1>6 DEF OpenChannel, Dialling, Usable
<1>7. CASE Lose
  BY <1>0, <1>7 DEF Lose, Dialling, Usable
<1> QED BY <1>1, <1>2, <1>3, <1>4, <1>5, <1>6, <1>7 DEF Next, Step

LEMMA DialInit == Init => DialInv
BY TypeInit DEF Init, DialInv, Known, Dialling

LEMMA DialStep == ASSUME DialInv, [Next]_vars PROVE DialInv'
BY TypeStep, KnownStep, DiallingStep DEF DialInv

\* A connection that works is never replaced, however many goroutines have found
\* its predecessor dead and however long one of them dials (client.go:32-43).
THEOREM WorkingConnectionStays == Spec => NoWorkingReplaced
<1> DEFINE A == conn' # conn /\ conn' # Nil => ~Usable(conn)
<1>1. ASSUME DialInv, [Next]_vars PROVE [A]_vars
  <2>1. CASE UNCHANGED vars
    BY <2>1
  <2>2. ASSUME NEW g \in Goroutines,
               \/ Call(g) \/ Lock(g) \/ Connected(g) \/ Broken(g) \/ Dial(g) \/ DialFails(g)
               \/ Read(g) \/ OpenChannel(g) \/ ChannelFails(g) \/ NilPanic(g)
        PROVE  A
    BY <2>2 DEF Call, Lock, Connected, Broken, Dial, DialFails, Read, OpenChannel,
                ChannelFails, NilPanic
  <2>3. ASSUME NEW g \in Goroutines, Assign(g) PROVE A
    BY <1>1, <2>3 DEF Assign, Goto, DialInv, Dialling
  <2>4. ASSUME NEW g \in Goroutines, Forget(g) PROVE A
    BY <2>4 DEF Forget
  <2>5. CASE Lose
    BY <2>5 DEF Lose
  <2> QED BY <1>1, <2>1, <2>2, <2>3, <2>4, <2>5 DEF Next, Step
<1> QED BY <1>1, DialInit, DialStep, PTL DEF Spec, NoWorkingReplaced

-----------------------------------------------------------------------------
(* Connections left open.  LeaksAreFaults is not inductive: forgetting an   *)
(* open connection makes it one more, so the goroutine that is about to do  *)
(* it must have brought its fault along.                                    *)

\* Some goroutine is about to forget the current connection, which is open.
Doomed == Usable(conn) /\ \E g \in Goroutines : pc[g] = "forget" /\ got[g] = conn

Rest == open \ (Fresh \cup {conn})

LeakInv ==
  /\ DialInv
  /\ Cardinality(Rest) <= faults
  /\ Doomed => Cardinality(open) <= faults

\* What the proof uses of cardinalities.
LEMMA OpenCard ==
  ASSUME TypeOK, NEW S, S \subseteq open, NEW c
  PROVE  /\ IsFiniteSet(S)
         /\ Cardinality(S) \in Nat
         /\ Cardinality(S) <= Cardinality(S \ {c}) + 1
         /\ \A R \in SUBSET S : Cardinality(R) \in Nat /\ Cardinality(R) <= Cardinality(S)
<1>1. dialed \in Int /\ open \subseteq 1 .. dialed
  BY DEF TypeOK, Conns
<1>2. IsFiniteSet(S)
  <2>1. IsFiniteSet(1 .. dialed)
    BY <1>1, FS_Interval
  <2>2. S \in SUBSET (1 .. dialed)
    BY <1>1
  <2> QED BY <2>1, <2>2, FS_Subset
<1>3. \A R \in SUBSET S : IsFiniteSet(R) /\ Cardinality(R) <= Cardinality(S)
  BY <1>2, FS_Subset
<1>4. \A R \in SUBSET S : Cardinality(R) \in Nat
  BY <1>3, FS_CardinalityType
<1>5. Cardinality(S) <= Cardinality(S \ {c}) + 1
  BY <1>2, <1>4, FS_RemoveElement
<1> QED BY <1>2, <1>3, <1>4, <1>5

\* While the connection works nothing is being dialled.
LEMMA NothingFresh == ASSUME DialInv, Usable(conn) PROVE Fresh = {} /\ Rest = open \ {conn}
BY DEF DialInv, Dialling, Fresh, Rest

\* A goroutine that is not between dial and assignment makes nothing fresh.
LEMMA FreshStays ==
  ASSUME TypeOK, NEW g \in Goroutines,
         pc[g] # "assign", pc'[g] # "assign",
         \A f \in Goroutines \ {g} : pc'[f] = pc[f] /\ got'[f] = got[f]
  PROVE  Fresh' = Fresh
BY DEF Fresh

LEMMA LeakStep == ASSUME LeakInv, [Next]_vars PROVE LeakInv'
<1>1. DialInv /\ DialInv' /\ TypeOK /\ Known /\ Dialling
  BY DialStep DEF LeakInv, DialInv
<1>2. faults \in Int /\ Cardinality(open) \in Int /\ Cardinality(Rest) \in Int
  <2>1. faults \in Int
    BY <1>1, FaultsAssumption DEF TypeOK
  <2>2. Cardinality(open) \in Nat
    BY <1>1, OpenCard
  <2>3. Rest \subseteq open
    BY DEF Rest
  <2>4. Cardinality(Rest) \in Nat
    BY <1>1, <2>3, OpenCard
  <2> QED BY <2>1, <2>2, <2>4
<1>3. Cardinality(Rest) <= faults /\ (Doomed => Cardinality(open) <= faults)
  BY DEF LeakInv
<1>4. Nil \notin open
  <2>1. open \subseteq 1 .. MaxConns
    BY <1>1, ConnsAssumption DEF TypeOK, Conns
  <2> QED BY <2>1, NilAssumption
<1>5. got \in [Goroutines -> Conns \cup {Nil}] /\ pc \in [Goroutines -> PCs]
  BY <1>1 DEF TypeOK
<1> DEFINE Fine == Cardinality(Rest) <= faults /\ (Doomed => Cardinality(open) <= faults)
<1>6. SUFFICES Fine'
  BY <1>1 DEF LeakInv
<1>7. ASSUME NEW g \in Goroutines,
             \/ Call(g) \/ Lock(g) \/ Connected(g) \/ Broken(g) \/ DialFails(g) \/ Read(g)
             \/ OpenChannel(g) \/ NilPanic(g)
      PROVE  Fine'
  <2>1. conn' = conn /\ open' = open /\ faults' \in {faults, faults + 1}
    BY <1>7 DEF Call, Lock, Connected, Broken, DialFails, Read, OpenChannel, NilPanic
  <2>2. Doomed' => Doomed
    BY <1>5, <1>7, <2>1
    DEF Doomed, Usable, Call, Lock, Connected, Broken, DialFails, Read, OpenChannel, NilPanic, Goto
  <2>3. /\ pc[g] # "assign" /\ pc'[g] # "assign"
        /\ \A f \in Goroutines \ {g} : pc'[f] = pc[f] /\ got'[f] = got[f]
    BY <1>5, <1>7
    DEF Call, Lock, Connected, Broken, DialFails, Read, OpenChannel, NilPanic, Goto
  <2>4. Rest' = Rest
    BY <1>1, <2>1, <2>3, FreshStays DEF Rest
  <2> QED BY <1>2, <1>3, <2>1, <2>2, <2>4
<1>8. ASSUME NEW g \in Goroutines, ChannelFails(g) PROVE Fine'
  <2>1. conn' = conn /\ open' = open /\ got' = got
    BY <1>8 DEF ChannelFails
  <2>2. /\ pc[g] # "assign" /\ pc'[g] # "assign"
        /\ \A f \in Goroutines \ {g} : pc'[f] = pc[f]
    BY <1>5, <1>8 DEF ChannelFails, Goto
  <2>3. Rest' = Rest
    BY <1>1, <2>1, <2>2, FreshStays DEF Rest
  <2>4. CASE got[g] = conn /\ got[g] \in open
    <3>1. faults' = faults + 1
      BY <1>8, <2>4 DEF ChannelFails
    <3>2. Rest = open \ {conn}
      BY <1>1, <1>4, <2>4, NothingFresh DEF Usable
    <3>3. Cardinality(open) <= Cardinality(Rest) + 1
      BY <1>1, <3>2, OpenCard
    <3> QED BY <1>2, <1>3, <2>1, <2>3, <3>1, <3>3
  <2>5. CASE ~(got[g] = conn /\ got[g] \in open)
    <3>1. Doomed' => Doomed
      BY <1>5, <1>8, <2>1, <2>5 DEF Doomed, Usable, ChannelFails, Goto
    <3>2. faults' \in {faults, faults + 1}
      BY <1>8 DEF ChannelFails
    <3> QED BY <1>2, <1>3, <2>1, <2>3, <3>1, <3>2
  <2> QED BY <2>4, <2>5
<1>9. ASSUME NEW g \in Goroutines, Dial(g) PROVE Fine'
  <2>1. /\ pc[g] = "dial" /\ pc' = [pc EXCEPT ![g] = "assign"]
        /\ conn' = conn
        /\ open' = open \cup {dialed + 1}
        /\ got' = [got EXCEPT ![g] = dialed + 1]
        /\ faults' = faults
    BY <1>9 DEF Dial, Goto
  <2>2. ~Usable(conn) /\ ~Usable(conn)'
    BY <1>1, <1>5, <2>1 DEF DialInv, Dialling
  <2>3. \A f \in Goroutines \ {g} : pc[f] # "assign"
    BY <1>1, <2>1, OneInside DEF Critical
  <2>4. Fresh = {} /\ Fresh' = {dialed + 1}
    BY <1>5, <2>1, <2>3 DEF Fresh
  <2>5. dialed + 1 \notin open
    BY <1>1 DEF TypeOK, Conns
  <2>6. Rest' = Rest
    BY <2>1, <2>4, <2>5 DEF Rest
  <2>7. ~Doomed'
    BY <2>2 DEF Doomed
  <2> QED BY <1>3, <2>1, <2>6, <2>7
<1>10. ASSUME NEW g \in Goroutines, Assign(g) PROVE Fine'
  <2>1. /\ pc[g] = "assign" /\ pc' = [pc EXCEPT ![g] = "read"]
        /\ conn' = got[g]
        /\ open' = open
        /\ got' = [got EXCEPT ![g] = Nil]
        /\ faults' = faults
    BY <1>10 DEF Assign, Goto
  <2>2. \A f \in Goroutines \ {g} : pc[f] # "assign"
    BY <1>1, <2>1, OneInside DEF Critical
  <2>3. Fresh = {got[g]} /\ Fresh' = {}
    BY <1>5, <2>1, <2>2 DEF Fresh
  <2>4. conn \notin open
    BY <1>1, <1>4, <2>1 DEF Dialling, Usable
  <2>5. Rest' = Rest
    BY <2>1, <2>3, <2>4 DEF Rest
  <2>6. ~Doomed'
    BY <1>1, <1>5, <2>1 DEF Doomed, Dialling
  <2> QED BY <1>3, <2>1, <2>5, <2>6
<1>11. ASSUME NEW g \in Goroutines, Forget(g) PROVE Fine'
  <2>1. /\ open' = open
        /\ faults' = faults
        /\ got' = [got EXCEPT ![g] = Nil]
        /\ pc' = [pc EXCEPT ![g] = "idle"]
        /\ pc[g] = "forget"
    BY <1>11 DEF Forget, Goto
  <2>2. Fresh' = Fresh
    <3>1. /\ pc'[g] # "assign"
          /\ \A f \in Goroutines \ {g} : pc'[f] = pc[f] /\ got'[f] = got[f]
      BY <1>5, <2>1
    <3> QED BY <1>1, <2>1, <3>1, FreshStays
  <2>3. CASE conn = got[g] /\ Usable(conn)
    <3>1. conn' = Nil
      BY <1>11, <2>3 DEF Forget
    <3>2. Cardinality(open) <= faults
      BY <1>3, <2>1, <2>3 DEF Doomed
    <3>3. Rest' = open
      BY <1>1, <1>4, <2>1, <2>2, <2>3, <3>1, NothingFresh DEF Rest
    <3> QED BY <2>1, <3>1, <3>2, <3>3 DEF Doomed, Usable
  <2>4. CASE conn = got[g] /\ ~Usable(conn)
    <3>1. conn' = Nil /\ conn \notin open
      BY <1>4, <1>11, <2>4 DEF Forget, Usable
    <3>2. Rest' = Rest
      BY <1>4, <2>1, <2>2, <3>1 DEF Rest
    <3> QED BY <1>3, <2>1, <3>1, <3>2 DEF Doomed, Usable
  <2>5. CASE conn # got[g]
    <3>1. conn' = conn
      BY <1>11, <2>5 DEF Forget
    <3>2. Doomed' => Doomed
      BY <1>5, <2>1, <2>5, <3>1 DEF Doomed, Usable
    <3>3. Rest' = Rest
      BY <2>1, <2>2, <3>1 DEF Rest
    <3> QED BY <1>3, <2>1, <3>2, <3>3
  <2> QED BY <2>3, <2>4, <2>5
<1>12. CASE Lose
  <2>1. PICK c \in open : open' = open \ {c}
    BY <1>12 DEF Lose
  <2>2. conn' = conn /\ got' = got /\ pc' = pc /\ faults' = faults + 1
    BY <1>12 DEF Lose
  <2>3. Rest' \in SUBSET Rest /\ open' \in SUBSET open /\ Rest \subseteq open
    BY <2>1, <2>2 DEF Rest, Fresh
  <2>4. /\ Cardinality(Rest') \in Int
        /\ Cardinality(Rest') <= Cardinality(Rest)
        /\ Cardinality(open') \in Int
        /\ Cardinality(open') <= Cardinality(open)
    <3>1. ASSUME NEW S, S \subseteq open, NEW R \in SUBSET S
          PROVE  Cardinality(R) \in Int /\ Cardinality(R) <= Cardinality(S)
      <4>1. \A Q \in SUBSET S : Cardinality(Q) \in Nat /\ Cardinality(Q) <= Cardinality(S)
        BY <1>1, <3>1, OpenCard
      <4> QED BY <4>1
    <3> QED BY <2>3, <3>1
  <2>5. Doomed' => Doomed
    BY <2>2, <2>3 DEF Doomed, Usable
  <2> QED BY <1>2, <1>3, <2>2, <2>4, <2>5
<1>13. CASE UNCHANGED vars
  BY <1>3, <1>13 DEF vars, Rest, Fresh, Doomed, Usable
<1> QED
  BY <1>7, <1>8, <1>9, <1>10, <1>11, <1>12, <1>13 DEF Next, Step

\* However many goroutines lose, dial and drop connections at once, each one left
\* open beside the current one has cost a fault (client.go:64-68).
THEOREM LeaksBounded == Spec => []LeaksAreFaults
<1>1. Init => LeakInv
  <2> SUFFICES ASSUME Init PROVE LeakInv
    OBVIOUS
  <2>1. DialInv
    BY DialInit
  <2>2. ~Doomed
    BY DEF Init, Doomed
  <2>3. Rest = {} /\ faults = 0
    BY DEF Init, Rest
  <2>4. Cardinality(Rest) <= faults
    BY <2>3, FS_EmptySet
  <2> QED BY <2>1, <2>2, <2>4 DEF LeakInv
<1>2. LeakInv => LeaksAreFaults
  BY DEF LeakInv, LeaksAreFaults, Rest
<1> QED BY <1>1, <1>2, LeakStep, PTL DEF Spec
=============================================================================
