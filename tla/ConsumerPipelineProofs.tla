------------------------ MODULE ConsumerPipelineProofs ------------------------
(***************************************************************************)
(* Theorems about ConsumerPipeline for any pods, queues, messages,         *)
(* capacities and bounds, checked by TLAPS.  They are about safety: the    *)
(* fairness of Spec is not used.                                           *)
(***************************************************************************)
EXTENDS ConsumerPipeline, FiniteSetTheorems, SequenceTheorems, WellFoundedInduction, TLAPS

-----------------------------------------------------------------------------
(* Messages, and sequences of messages in the order of their queues.       *)

Before(S, T) == \A m \in S, n \in T : m[1] = n[1] => m[2] < n[2]
Sorted(s) == \A i, j \in DOMAIN s : i < j /\ s[i][1] = s[j][1] => s[i][2] < s[j][2]
Elems(s) == {s[i] : i \in DOMAIN s}

LEMMA Least == ASSUME NEW S \in SUBSET Nat, S # {} PROVE Min(S) \in S /\ \A x \in S : Min(S) <= x
<1> DEFINE R == {ss \in Nat \X Nat : ss[1] < ss[2]}
<1>1. IsWellFoundedOn(R, Nat)
  BY NatLessThanWellFounded DEF OpToRel
<1>2. PICK x \in S : \A y \in S : ~ (<<y, x>> \in R)
  BY <1>1, WFMin
<1>3. \A i, j \in Nat : <<j, i>> \in R <=> j < i
  OBVIOUS
<1> HIDE DEF R
<1>4. \A y \in S : x <= y
  <2> TAKE y \in S
  <2>1. ~ (<<y, x>> \in R) /\ x \in Nat /\ y \in Nat
    BY <1>2
  <2> QED BY <1>3, <2>1
<1> DEFINE P(z) == z \in S /\ \A y \in S : z <= y
<1>5. Min(S) = CHOOSE z : P(z)
  BY DEF Min
<1>6. \E z : P(z)
  BY <1>4
<1> HIDE DEF P
<1>7. P(Min(S))
  BY <1>5, <1>6
<1> QED BY <1>7 DEF P

LEMMA LeastOfTwo == \A i, j \in Nat : Min({i, j}) \in 0 .. j
<1> SUFFICES ASSUME NEW i \in Nat, NEW j \in Nat PROVE Min({i, j}) \in 0 .. j
  OBVIOUS
<1>1. Min({i, j}) \in {i, j} /\ Min({i, j}) <= j
  BY Least
<1> QED BY <1>1

LEMMA MessageType ==
  /\ \A m \in Messages : m[1] \in Queues /\ m[2] \in 1 .. LastMessage[m[1]] /\ m[2] \in Nat
                        /\ m = <<m[1], m[2]>>
  /\ \A q \in Queues : \A i \in 1 .. LastMessage[q] : <<q, i>> \in Messages
BY LastAssumption DEF Messages

LEMMA Appended ==
  ASSUME NEW s \in Seq(Messages), NEW m \in Messages
  PROVE  /\ Append(s, m) \in Seq(Messages) /\ Elems(Append(s, m)) = Elems(s) \cup {m}
         /\ Len(Append(s, m)) = Len(s) + 1
         /\ Sorted(s) /\ Before(Elems(s), {m}) => Sorted(Append(s, m))
<1>1. /\ Append(s, m) \in Seq(Messages) /\ Len(Append(s, m)) = Len(s) + 1 /\ Len(s) \in Nat
      /\ DOMAIN s = 1 .. Len(s) /\ DOMAIN Append(s, m) = 1 .. Len(s) + 1
      /\ \A i \in 1 .. Len(s) : Append(s, m)[i] = s[i] /\ Append(s, m)[Len(s) + 1] = m
      /\ Append(s, m)[Len(s) + 1] = m
  BY AppendProperties, LenProperties
<1> DEFINE t == Append(s, m)
<1> HIDE DEF t
<1>2. Elems(t) = Elems(s) \cup {m}
  BY <1>1 DEF Elems, t
<1>3. ASSUME Sorted(s), Before(Elems(s), {m}) PROVE Sorted(t)
  BY <1>1, <1>3 DEF Elems, Before, Sorted, t
<1> QED BY <1>1, <1>2, <1>3 DEF t

LEMMA Taken ==
  ASSUME NEW s \in Seq(Messages), s # <<>>
  PROVE  /\ Head(s) \in Messages /\ Tail(s) \in Seq(Messages) /\ Elems(s) = {Head(s)} \cup Elems(Tail(s))
         /\ Len(Tail(s)) <= Len(s)
         /\ Sorted(s) => Sorted(Tail(s)) /\ Before({Head(s)}, Elems(Tail(s)))
<1> DEFINE t == Tail(s)
<1>1. /\ Head(s) \in Messages /\ t \in Seq(Messages) /\ Len(t) = Len(s) - 1 /\ Len(s) \in Nat
      /\ \A i \in 1 .. Len(t) : t[i] = s[i + 1]
      /\ DOMAIN s = 1 .. Len(s) /\ DOMAIN t = 1 .. Len(t) /\ Head(s) = s[1] /\ Len(s) > 0
  BY HeadTailProperties, LenProperties, EmptySeq
<1> HIDE DEF t
<1>2. Elems(s) = {Head(s)} \cup Elems(t)
  <2>1. ASSUME NEW i \in 1 .. Len(s) PROVE s[i] = Head(s) \/ s[i] \in Elems(t)
    <3>1. CASE i = 1
      BY <1>1, <3>1
    <3>2. CASE i # 1
      <4>1. i - 1 \in 1 .. Len(t)
        BY <1>1, <3>2
      <4>2. t[i - 1] = s[i]
        BY <1>1, <4>1
      <4> QED BY <1>1, <4>1, <4>2 DEF Elems
    <3> QED BY <3>1, <3>2
  <2>2. Elems(s) \subseteq {Head(s)} \cup Elems(t)
    BY <1>1, <2>1 DEF Elems
  <2>3. ASSUME NEW j \in 1 .. Len(t) PROVE t[j] \in Elems(s)
    <3>1. j + 1 \in 1 .. Len(s) /\ t[j] = s[j + 1]
      BY <1>1
    <3> QED BY <1>1, <3>1 DEF Elems
  <2>4. Elems(t) \subseteq Elems(s)
    BY <1>1, <2>3 DEF Elems
  <2>5. Head(s) \in Elems(s)
    BY <1>1 DEF Elems
  <2> QED BY <2>2, <2>4, <2>5
<1>3. ASSUME Sorted(s) PROVE Sorted(t) /\ Before({Head(s)}, Elems(t))
  <2>1. ASSUME NEW j \in 1 .. Len(t), Head(s)[1] = t[j][1] PROVE Head(s)[2] < t[j][2]
    <3>1. j + 1 \in 1 .. Len(s) /\ 1 \in 1 .. Len(s) /\ 1 < j + 1 /\ t[j] = s[j + 1]
      BY <1>1
    <3> QED BY <1>1, <1>3, <2>1, <3>1 DEF Sorted
  <2>2. ASSUME NEW i \in 1 .. Len(t), NEW j \in 1 .. Len(t), i < j, t[i][1] = t[j][1]
        PROVE  t[i][2] < t[j][2]
    <3>1. /\ i + 1 \in 1 .. Len(s) /\ j + 1 \in 1 .. Len(s) /\ i + 1 < j + 1
          /\ t[i] = s[i + 1] /\ t[j] = s[j + 1]
      BY <1>1, <2>2
    <3> QED BY <1>1, <1>3, <2>2, <3>1 DEF Sorted
  <2>3. Before({Head(s)}, Elems(t))
    <3> SUFFICES ASSUME NEW m \in {Head(s)}, NEW n \in Elems(t), m[1] = n[1] PROVE m[2] < n[2]
      BY DEF Before
    <3>1. PICK j \in 1 .. Len(t) : n = t[j]
      BY <1>1 DEF Elems
    <3> QED BY <2>1, <3>1
  <2>4. Sorted(t)
    BY <1>1, <2>2 DEF Sorted
  <2> QED BY <2>3, <2>4
<1> QED BY <1>1, <1>2, <1>3 DEF t

\* What is left of a buffer whose end is dropped.
LEMMA Cut ==
  ASSUME NEW s \in Seq(Messages), NEW k \in 0 .. Len(s)
  PROVE  /\ SubSeq(s, 1, k) \in Seq(Messages) /\ Elems(SubSeq(s, 1, k)) \subseteq Elems(s)
         /\ Sorted(s) => /\ Sorted(SubSeq(s, 1, k))
                         /\ \A m \in Elems(SubSeq(s, 1, k)), n \in Elems(s) :
                              m[1] = n[1] /\ n[2] <= m[2] => n \in Elems(SubSeq(s, 1, k))
<1> DEFINE t == SubSeq(s, 1, k)
<1>1. Len(s) \in Nat /\ DOMAIN s = 1 .. Len(s) /\ \A i \in 1 .. Len(s) : s[i] \in Messages
  BY LenProperties
<1>2. /\ t \in Seq(Messages) /\ Len(t) = k /\ k \in Nat /\ DOMAIN t = 1 .. k
      /\ \A i \in 1 .. k : t[i] = s[i] /\ i \in 1 .. Len(s)
  BY <1>1
<1> HIDE DEF t
<1>3. Elems(t) \subseteq Elems(s)
  BY <1>1, <1>2 DEF Elems
<1>4. ASSUME Sorted(s) PROVE Sorted(t)
  BY <1>1, <1>2, <1>4 DEF Sorted
<1>5. ASSUME Sorted(s), NEW i \in 1 .. k, NEW j \in 1 .. Len(s), t[i][1] = s[j][1],
             s[j][2] <= t[i][2]
      PROVE  s[j] \in Elems(t)
  <2>1. s[i][2] \in Nat /\ s[j][2] \in Nat /\ i \in 1 .. Len(s) /\ t[i] = s[i]
    BY <1>1, <1>2, MessageType
  <2>2. j <= i
    BY <1>1, <1>5, <2>1 DEF Sorted
  <2>3. j \in 1 .. k /\ t[j] = s[j]
    BY <1>1, <1>2, <2>2
  <2> QED BY <1>2, <2>3 DEF Elems
<1>6. ASSUME Sorted(s)
      PROVE  \A m \in Elems(t), n \in Elems(s) : m[1] = n[1] /\ n[2] <= m[2] => n \in Elems(t)
  BY <1>1, <1>2, <1>5, <1>6 DEF Elems
<1> QED BY <1>2, <1>3, <1>4, <1>6 DEF t

-----------------------------------------------------------------------------
(* The invariant.                                                          *)

InLoop(p) == IF loop[p].pc \in {"routeFailed", "ack", "nack"} THEN {loop[p].msg} ELSE {}
InMerged(p) == Elems(merged[p])
InBuffer(p, q) == Elems(buffer[p][q])
Pending(p) == InMerged(p) \cup UNION {InBuffer(p, q) : q \in Queues}

\* A process that has exited has no loop, a loop that has not dialled or is done holds
\* nothing, and consumers are added until there is one for every queue.
Shape ==
  /\ active \in [Queues -> Pods \cup {Nobody}]
  /\ buffer \in [Pods -> [Queues -> Seq(Messages)]]
  /\ merged \in [Pods -> Seq(Messages)]
  /\ loop \in [Pods -> [pc : LoopPCs, msg : Messages \cup {<<>>}]]
  /\ errors \in [Pods -> 0 .. ErrorsCap]
  /\ process \in [Pods -> {"running", "signalled", "exited"}]
  /\ \A p \in Pods :
       /\ process[p] = "exited" => loop[p].pc = "done"
       /\ loop[p].pc \in {"dial", "done"} => buffer[p] = Empty /\ merged[p] = <<>>
       /\ loop[p].pc = "consume" => consuming[p] # Queues

TInv == TypeOK /\ Shape

\* What is unsettled of a queue was delivered to its active consumer, in the order of the
\* queue, and is older than what is ready.
Turns == \A p \in Pods : (\A m \in unacked[p] : active[m[1]] = p) /\ Before(unacked[p], ready)

\* What a pod with an open channel holds is unsettled on that channel.
Known == \A p \in up : Pending(p) \cup InLoop(p) \subseteq unacked[p]

\* Every pod holds deliveries in the order of their queues.
InOrder(p) ==
  /\ Before(InLoop(p), Pending(p)) /\ Sorted(merged[p])
  /\ \A q \in Queues : Sorted(buffer[p][q]) /\ Before(InMerged(p), InBuffer(p, q))

Ordered == \A p \in Pods : InOrder(p)

\* No message is lost by the broker, and only handled ones are settled.
Kept ==
  /\ \A m \in Messages : m \in ready \/ m \in settled \/ \E p \in Pods : m \in unacked[p]
  /\ settled \subseteq handled
  /\ \A p \in Pods : InLoop(p) \subseteq handled /\ unacked[p] \subseteq Pending(p) \cup handled

\* A pod that holds a message holds all earlier ones of its queue that were not handled.
NoGap == \A p \in Pods : \A m \in Pending(p), n \in Messages :
  n[1] = m[1] /\ n[2] < m[2] => n \in Pending(p) \cup handled

PInv == TInv /\ Turns /\ Known /\ Ordered /\ Kept /\ NoGap /\ FirstHandledInOrder

-----------------------------------------------------------------------------
(* Types.                                                                  *)

\* The channel of a pod is closed and what it held is gone.
Wiped(p) ==
  /\ ChannelClosed(p)
  /\ buffer' = [buffer EXCEPT ![p] = Empty]
  /\ merged' = [merged EXCEPT ![p] = <<>>]
  /\ loop' = [loop EXCEPT ![p] = At("dial")] \/ loop' = [loop EXCEPT ![p] = At("done")]
  /\ handled' = handled

\* Steps that move no message.
Calm(p) ==
  \/ Dial(p) \/ Consume(p) \/ Report(p) \/ SessionEnds(p) \/ Restart(p)
  \/ Log(p) \/ LoggerStops(p) \/ HandlerError(p) \/ Signal(p)

Wipes(p) == ConsumeFails(p) \/ LoopStops(p) \/ Exit(p) \/ Timeout(p) \/ Kill(p)

LEMMA Steps ==
  ASSUME Next
  PROVE  \/ \E q \in Queues : Activate(q) \/ Deliver(q)
         \/ \E p \in Pods : \/ \E q \in Queues : Forward(p, q)
                            \/ LoseChannel(p) \/ Route(p) \/ RouteFails(p) \/ Ack(p) \/ Nack(p)
                            \/ Calm(p) \/ Wipes(p)
BY Zenon DEF Next, Loop, Logger, Main, Calm, Wipes

LEMMA WipesWipe == ASSUME NEW p \in Pods, Wipes(p) PROVE Wiped(p)
BY DEF Wipes, Wiped, ConsumeFails, ConsumeError, LoopStops, Exit, Timeout, Kill, Gone

LEMMA EmptyType == Empty \in [Queues -> Seq(Messages)] /\ <<>> \in Seq(Messages)
                   /\ \A pc \in LoopPCs : At(pc) \in [pc : LoopPCs, msg : Messages \cup {<<>>}]
                                          /\ At(pc).pc = pc
<1>1. <<>> \in Seq(Messages)
  OBVIOUS
<1> QED BY <1>1 DEF Empty, At

\* The first of the ready messages of a queue.
First(q) == <<q, Min({n[2] : n \in OfQueue(q, ready)})>>

LEMMA FirstReady ==
  ASSUME ready \subseteq Messages, NEW q \in Queues, OfQueue(q, ready) # {}
  PROVE  /\ First(q) \in ready /\ First(q) \in Messages /\ First(q)[1] = q
         /\ \A n \in ready : n[1] = q => First(q)[2] <= n[2]
<1> DEFINE S == {n[2] : n \in OfQueue(q, ready)}
<1>1. S \subseteq Nat /\ S # {}
  BY MessageType DEF OfQueue
<1>2. Min(S) \in S /\ \A i \in S : Min(S) <= i
  BY <1>1, Least
<1>3. PICK m \in ready : m[1] = q /\ m[2] = Min(S)
  BY <1>2 DEF OfQueue
<1>4. m = <<m[1], m[2]>>
  BY <1>3, MessageType
<1>5. First(q) = m
  BY <1>3, <1>4 DEF First
<1>6. \A n \in ready : n[1] = q => n[2] \in S
  BY DEF OfQueue
<1> HIDE DEF S
<1> QED BY <1>2, <1>3, <1>5, <1>6

LEMMA BrokerType ==
  ASSUME TInv, Next
  PROVE  /\ ready' \subseteq Messages /\ settled' \subseteq Messages /\ handled' \subseteq Messages
         /\ unacked' \in [Pods -> SUBSET Messages]
<1>0. /\ ready \subseteq Messages /\ settled \subseteq Messages /\ handled \subseteq Messages
      /\ unacked \in [Pods -> SUBSET Messages] /\ merged \in [Pods -> Seq(Messages)]
  BY DEF TInv, TypeOK, Shape
<1>1. ASSUME NEW q \in Queues, Activate(q) PROVE UNCHANGED <<ready, settled, handled, unacked>>
  BY <1>1 DEF Activate
<1>2. ASSUME NEW q \in Queues, Deliver(q)
      PROVE  /\ UNCHANGED <<settled, handled>> /\ ready' \subseteq ready
             /\ unacked' \in [Pods -> SUBSET Messages]
  <2>1. First(q) \in Messages
    BY <1>0, <1>2, FirstReady DEF Deliver
  <2>2. unacked' = [unacked EXCEPT ![active[q]] = @ \cup {First(q)}]
    BY <1>2 DEF Deliver, First
  <2>3. UNCHANGED <<settled, handled>> /\ ready' \subseteq ready
    BY <1>2 DEF Deliver
  <2> QED BY <1>0, <2>1, <2>2, <2>3
<1>3. ASSUME NEW p \in Pods, NEW q \in Queues, Forward(p, q)
      PROVE  UNCHANGED <<ready, settled, handled, unacked>>
  BY <1>3 DEF Forward, broker
<1>4. ASSUME NEW p \in Pods, ChannelClosed(p), handled' = handled
      PROVE  /\ ready' \subseteq Messages /\ UNCHANGED <<settled, handled>>
             /\ unacked' \in [Pods -> SUBSET Messages]
  BY <1>0, <1>4 DEF ChannelClosed
<1>5. ASSUME NEW p \in Pods, Route(p) \/ RouteFails(p)
      PROVE  UNCHANGED <<ready, settled, unacked>> /\ handled' \subseteq Messages
  <2>1. UNCHANGED <<ready, settled, unacked>> /\ handled' = handled \cup {Head(merged[p])}
        /\ merged[p] # <<>>
    BY <1>5 DEF Route, RouteFails, Receive, broker
  <2>2. Head(merged[p]) \in Messages
    BY <1>0, <2>1
  <2> QED BY <1>0, <2>1, <2>2
<1>6. ASSUME NEW p \in Pods, Ack(p) \/ Nack(p)
      PROVE  /\ UNCHANGED <<ready, handled>> /\ settled' \subseteq Messages
             /\ unacked' \in [Pods -> SUBSET Messages]
  BY <1>0, <1>6 DEF Ack, Nack, Settle
<1>7. ASSUME NEW p \in Pods, Calm(p) PROVE UNCHANGED <<ready, settled, handled, unacked>>
  BY <1>7 DEF Calm, Dial, Consume, Report, SessionEnds, Restart, Log, LoggerStops, HandlerError,
    Signal, broker
<1>8. \A p \in Pods : Wipes(p) => ChannelClosed(p) /\ handled' = handled
  BY WipesWipe DEF Wiped
<1>9. \A p \in Pods : LoseChannel(p) => ChannelClosed(p) /\ handled' = handled
  BY DEF LoseChannel
<1> QED BY <1>0, <1>1, <1>2, <1>3, <1>4, <1>5, <1>6, <1>7, <1>8, <1>9, Steps

\* The buffers and Go channels of the pods.
LEMMA InputType ==
  ASSUME TInv, Next
  PROVE  /\ buffer' \in [Pods -> [Queues -> Seq(Messages)]] /\ merged' \in [Pods -> Seq(Messages)]
         /\ \A p \in Pods : Len(merged'[p]) <= MergedCap
<1>0. /\ ready \subseteq Messages /\ buffer \in [Pods -> [Queues -> Seq(Messages)]]
      /\ merged \in [Pods -> Seq(Messages)] /\ \A p \in Pods : Len(merged[p]) <= MergedCap
      /\ active \in [Queues -> Pods \cup {Nobody}] /\ MergedCap \in Nat \ {0} /\ Prefetch \in Nat
  BY CapsAssumption DEF TInv, TypeOK, Shape
<1>1. ASSUME NEW q \in Queues, Activate(q) PROVE UNCHANGED <<buffer, merged>>
  BY <1>1 DEF Activate, inputs
<1>2. ASSUME NEW q \in Queues, Deliver(q)
      PROVE  buffer' \in [Pods -> [Queues -> Seq(Messages)]] /\ merged' = merged
  <2> DEFINE m == First(q)
  <2>1. m \in Messages
    BY <1>0, <1>2, FirstReady DEF Deliver
  <2>2. /\ buffer' = [buffer EXCEPT ![active[q]][q] = Append(@, m)] /\ merged' = merged
        /\ active[q] \in Pods
    BY <1>0, <1>2 DEF Deliver, First
  <2> HIDE DEF m
  <2>3. Append(buffer[active[q]][q], m) \in Seq(Messages)
    BY <1>0, <2>1, <2>2
  <2> QED BY <1>0, <2>2, <2>3
<1>3. ASSUME NEW p \in Pods, NEW q \in Queues, Forward(p, q)
      PROVE  /\ buffer' \in [Pods -> [Queues -> Seq(Messages)]]
             /\ merged' \in [Pods -> Seq(Messages)] /\ \A r \in Pods : Len(merged'[r]) <= MergedCap
  <2>1. /\ buffer[p][q] \in Seq(Messages) /\ buffer[p][q] # <<>> /\ merged[p] \in Seq(Messages)
        /\ Len(merged[p]) < MergedCap
        /\ buffer' = [buffer EXCEPT ![p][q] = Tail(@)]
        /\ merged' = [merged EXCEPT ![p] = Append(@, Head(buffer[p][q]))]
    BY <1>0, <1>3 DEF Forward
  <2>2. Head(buffer[p][q]) \in Messages /\ Tail(buffer[p][q]) \in Seq(Messages)
    BY <2>1, Taken
  <2>3. /\ Append(merged[p], Head(buffer[p][q])) \in Seq(Messages)
        /\ Len(Append(merged[p], Head(buffer[p][q]))) = Len(merged[p]) + 1
    BY <2>1, <2>2, Appended
  <2>4. Len(merged[p]) + 1 <= MergedCap
    BY <1>0, <2>1
  <2> QED BY <1>0, <2>1, <2>2, <2>3, <2>4
<1>4. ASSUME NEW p \in Pods, LoseChannel(p)
      PROVE  buffer' \in [Pods -> [Queues -> Seq(Messages)]] /\ merged' = merged
  <2>1. PICK kept \in [Queues -> 0 .. Prefetch] :
          buffer' = [buffer EXCEPT ![p] =
            [q \in Queues |-> SubSeq(@[q], 1, Min({kept[q], Len(@[q])}))]]
    BY <1>4 DEF LoseChannel
  <2>2. \A q \in Queues : SubSeq(buffer[p][q], 1, Min({kept[q], Len(buffer[p][q])})) \in Seq(Messages)
    <3> TAKE q \in Queues
    <3>1. Min({kept[q], Len(buffer[p][q])}) \in 0 .. Len(buffer[p][q])
      <4>1. kept[q] \in Nat /\ Len(buffer[p][q]) \in Nat
        BY <1>0, LenProperties
      <4> QED BY <4>1, LeastOfTwo
    <3> QED BY <1>0, <3>1, Cut
  <2> QED BY <1>0, <1>4, <2>1, <2>2 DEF LoseChannel
<1>5. ASSUME NEW p \in Pods, Route(p) \/ RouteFails(p)
      PROVE  /\ buffer' = buffer /\ merged' \in [Pods -> Seq(Messages)]
             /\ \A r \in Pods : Len(merged'[r]) <= MergedCap
  <2>1. buffer' = buffer /\ merged' = [merged EXCEPT ![p] = Tail(@)] /\ merged[p] # <<>>
    BY <1>5 DEF Route, RouteFails, Receive
  <2>2. Tail(merged[p]) \in Seq(Messages) /\ Len(Tail(merged[p])) <= Len(merged[p])
        /\ Len(Tail(merged[p])) \in Nat /\ Len(merged[p]) \in Nat
    BY <1>0, <2>1, Taken
  <2>3. Len(Tail(merged[p])) <= MergedCap
    BY <1>0, <2>2
  <2> QED BY <1>0, <2>1, <2>2, <2>3
<1>6. ASSUME NEW p \in Pods, Ack(p) \/ Nack(p) PROVE UNCHANGED <<buffer, merged>>
  BY <1>6 DEF Ack, Nack, Settle, inputs
<1>7. ASSUME NEW p \in Pods, Calm(p) PROVE UNCHANGED <<buffer, merged>>
  BY <1>7 DEF Calm, Dial, Consume, Report, SessionEnds, Restart, Log, LoggerStops, HandlerError,
    Signal, inputs
<1>8. ASSUME NEW p \in Pods, Wipes(p)
      PROVE  /\ buffer' \in [Pods -> [Queues -> Seq(Messages)]]
             /\ merged' \in [Pods -> Seq(Messages)] /\ \A r \in Pods : Len(merged'[r]) <= MergedCap
  <2>1. Wiped(p) /\ Len(<<>>) = 0
    BY <1>8, WipesWipe
  <2> QED BY <1>0, <2>1, EmptyType DEF Wiped
<1> QED BY <1>0, <1>1, <1>2, <1>3, <1>4, <1>5, <1>6, <1>7, <1>8, Steps

\* Where the loops, the error channels and the processes are.
LoopType == [pc : LoopPCs, msg : Messages \cup {<<>>}]

LEMMA LoopStep ==
  ASSUME TInv, Next
  PROVE  loop' \in [Pods -> LoopType]
<1>0. loop \in [Pods -> LoopType] /\ merged \in [Pods -> Seq(Messages)]
  BY DEF TInv, Shape, LoopType
<1>1. At("dial") \in LoopType /\ At("consume") \in LoopType /\ At("receive") \in LoopType /\ At("done") \in LoopType
  BY EmptyType DEF LoopPCs, LoopType
<1>2. ASSUME NEW q \in Queues, Activate(q) \/ Deliver(q) PROVE loop' = loop
  BY <1>2 DEF Activate, Deliver
<1>3. ASSUME NEW p \in Pods, NEW q \in Queues, Forward(p, q) PROVE loop' = loop
  BY <1>3 DEF Forward
<1>4. ASSUME NEW p \in Pods, LoseChannel(p) PROVE loop' = loop
  BY <1>4 DEF LoseChannel
<1>5. ASSUME NEW p \in Pods, Route(p) \/ RouteFails(p) PROVE loop' \in [Pods -> LoopType]
  <2>1. Head(merged[p]) \in Messages
    BY <1>0, <1>5 DEF Route, RouteFails, Receive
  <2>2. PICK pc \in {"ack", "routeFailed"} : loop' = [loop EXCEPT ![p] = [pc |-> pc, msg |-> Head(merged[p])]]
    BY <1>5 DEF Route, RouteFails
  <2>3. [pc |-> pc, msg |-> Head(merged[p])] \in LoopType
    BY <2>1 DEF LoopType, LoopPCs
  <2> QED BY <1>0, <2>2, <2>3
<1>6. ASSUME NEW p \in Pods, Ack(p) \/ Nack(p) PROVE loop' \in [Pods -> LoopType]
  <2>1. PICK pc \in {"ackFailed", "nackFailed"} : Settle(p, pc)
    BY <1>6 DEF Ack, Nack
  <2>2. [loop[p] EXCEPT !.pc = pc] \in LoopType
    BY <1>0 DEF LoopType, LoopPCs
  <2>3. \/ loop' = [loop EXCEPT ![p] = At("receive")]
        \/ loop' = [loop EXCEPT ![p] = [loop[p] EXCEPT !.pc = pc]]
    BY <1>0, <2>1 DEF Settle
  <2> QED BY <1>0, <1>1, <2>2, <2>3
<1>7. ASSUME NEW p \in Pods, Report(p) PROVE loop' \in [Pods -> LoopType]
  <2>1. [loop[p] EXCEPT !.pc = "nack"] \in LoopType
    BY <1>0 DEF LoopType, LoopPCs
  <2>2. loop' = [loop EXCEPT ![p] = At("receive")] \/ loop' = [loop EXCEPT ![p] = [loop[p] EXCEPT !.pc = "nack"]]
    BY <1>0, <1>7 DEF Report
  <2> QED BY <1>0, <1>1, <2>1, <2>2
<1>8. ASSUME NEW p \in Pods, Dial(p) \/ Consume(p) \/ SessionEnds(p) \/ Restart(p) \/ Wiped(p)
      PROVE  loop' \in [Pods -> LoopType]
  <2>1. \/ loop' = loop \/ loop' = [loop EXCEPT ![p] = At("consume")]
        \/ loop' = [loop EXCEPT ![p] = At("receive")] \/ loop' = [loop EXCEPT ![p] = At("dial")]
        \/ loop' = [loop EXCEPT ![p] = At("done")]
    BY <1>8 DEF Dial, Consume, SessionEnds, Restart, Wiped
  <2> QED BY <1>0, <1>1, <2>1
<1>9. ASSUME NEW p \in Pods, Log(p) \/ LoggerStops(p) \/ HandlerError(p) \/ Signal(p)
      PROVE  loop' = loop
  BY <1>9 DEF Log, LoggerStops, HandlerError, Signal
<1> QED
  BY <1>0, <1>2, <1>3, <1>4, <1>5, <1>6, <1>7, <1>8, <1>9, Steps, WipesWipe DEF Calm

LEMMA ProcessType ==
  ASSUME TInv, Next
  PROVE  /\ errors' \in [Pods -> 0 .. ErrorsCap] /\ logger' \subseteq Pods
         /\ process' \in [Pods -> {"running", "signalled", "exited"}]
         /\ faults' \in 0 .. MaxFaults
<1>0. /\ errors \in [Pods -> 0 .. ErrorsCap] /\ logger \subseteq Pods
      /\ process \in [Pods -> {"running", "signalled", "exited"}]
      /\ faults \in 0 .. MaxFaults /\ MaxFaults \in Nat /\ ErrorsCap \in Nat
  BY CapsAssumption, FaultsAssumption DEF TInv, TypeOK, Shape
<1>1. faults' = faults \/ Fault
  BY Steps DEF Activate, Deliver, Forward, LoseChannel, Route, RouteFails, Ack, Nack, Settle, Calm,
    Dial, Consume, Report, SessionEnds, Restart, Log, LoggerStops, HandlerError, Signal, Wipes,
    ConsumeFails, ConsumeError, LoopStops, Exit, Timeout, Kill
<1>2. faults' \in 0 .. MaxFaults
  BY <1>0, <1>1 DEF Fault
<1>3. \/ UNCHANGED <<errors, logger, process>>
      \/ \E p \in Pods : Report(p) \/ Log(p) \/ HandlerError(p)
      \/ \E p \in Pods : Signal(p) \/ LoggerStops(p) \/ Restart(p) \/ Gone(p)
  BY Steps DEF Activate, Deliver, Forward, LoseChannel, Route, RouteFails, Ack, Nack, Settle, Calm,
    Dial, Consume, SessionEnds, Wipes, ConsumeFails, ConsumeError, LoopStops, Exit, Timeout, Kill
<1>4. ASSUME NEW p \in Pods, Report(p) \/ Log(p) \/ HandlerError(p)
      PROVE  errors' \in [Pods -> 0 .. ErrorsCap] /\ UNCHANGED <<logger, process>>
  <2>1. \/ errors[p] < ErrorsCap /\ errors' = [errors EXCEPT ![p] = @ + 1]
        \/ errors[p] > 0 /\ errors' = [errors EXCEPT ![p] = @ - 1]
    BY <1>4 DEF Report, Log, HandlerError
  <2>2. UNCHANGED <<logger, process>>
    BY <1>4 DEF Report, Log, HandlerError
  <2> QED BY <1>0, <2>1, <2>2
<1>5. ASSUME NEW p \in Pods, Signal(p) \/ LoggerStops(p) \/ Restart(p) \/ Gone(p)
      PROVE  /\ errors' \in [Pods -> 0 .. ErrorsCap] /\ logger' \subseteq Pods
             /\ process' \in [Pods -> {"running", "signalled", "exited"}]
  BY <1>0, <1>5 DEF Signal, LoggerStops, Restart, Gone
<1> QED BY <1>0, <1>2, <1>3, <1>4, <1>5

\* What a step may do to the loop of a pod.
LEMMA Transitions ==
  ASSUME TInv, Next, NEW p \in Pods
  PROVE  \/ loop'[p] = loop[p]
         \/ Dial(p) /\ loop'[p].pc = "consume"
         \/ Consume(p) /\ loop'[p].pc = "receive"
         \/ Wipes(p) /\ loop'[p].pc \in {"dial", "done"}
         \/ (Route(p) \/ RouteFails(p)) /\ loop'[p].pc \in {"ack", "routeFailed"}
         \/ (Ack(p) \/ Nack(p)) /\ loop'[p].pc \in {"receive", "ackFailed", "nackFailed"}
         \/ Report(p) /\ loop'[p].pc \in {"receive", "nack"}
         \/ (SessionEnds(p) \/ Restart(p)) /\ loop'[p].pc = "dial"
<1>0. loop \in [Pods -> LoopType] /\ loop[p] \in LoopType
  BY DEF TInv, Shape, LoopType
<1>1. At("dial").pc = "dial" /\ At("consume").pc = "consume" /\ At("receive").pc = "receive" /\ At("done").pc = "done"
  BY DEF At
<1>2. ASSUME NEW r \in Pods, Dial(r) PROVE loop'[p] = loop[p] \/ (p = r /\ loop'[p].pc = "consume")
  BY <1>0, <1>1, <1>2 DEF Dial
<1>3. ASSUME NEW r \in Pods, Consume(r) PROVE loop'[p] = loop[p] \/ (p = r /\ loop'[p].pc = "receive")
  <2>1. loop' = loop \/ loop' = [loop EXCEPT ![r] = At("receive")]
    BY <1>3 DEF Consume
  <2> QED BY <1>0, <1>1, <2>1
<1>4. ASSUME NEW r \in Pods, Wipes(r) PROVE loop'[p] = loop[p] \/ (p = r /\ loop'[p].pc \in {"dial", "done"})
  BY <1>0, <1>1, <1>4, WipesWipe DEF Wiped
<1>5. ASSUME NEW r \in Pods, Route(r) \/ RouteFails(r)
      PROVE  loop'[p] = loop[p] \/ (p = r /\ loop'[p].pc \in {"ack", "routeFailed"})
  BY <1>0, <1>5 DEF Route, RouteFails
<1>6. ASSUME NEW r \in Pods, Ack(r) \/ Nack(r)
      PROVE  loop'[p] = loop[p] \/ (p = r /\ loop'[p].pc \in {"receive", "ackFailed", "nackFailed"})
  <2>1. PICK pc \in {"ackFailed", "nackFailed"} : Settle(r, pc)
    BY <1>6 DEF Ack, Nack
  <2>2. \/ loop' = [loop EXCEPT ![r] = At("receive")]
        \/ loop' = [loop EXCEPT ![r] = [loop[r] EXCEPT !.pc = pc]]
    BY <1>0, <2>1 DEF Settle
  <2>3. \A l \in LoopType : [l EXCEPT !.pc = pc].pc = pc
    BY DEF LoopType
  <2> QED BY <1>0, <1>1, <2>2, <2>3
<1>7. ASSUME NEW r \in Pods, Report(r)
      PROVE  loop'[p] = loop[p] \/ (p = r /\ loop'[p].pc \in {"receive", "nack"})
  <2>1. loop' = [loop EXCEPT ![r] = At("receive")] \/ loop' = [loop EXCEPT ![r] = [loop[r] EXCEPT !.pc = "nack"]]
    BY <1>0, <1>7 DEF Report
  <2>2. \A l \in LoopType : [l EXCEPT !.pc = "nack"].pc = "nack"
    BY DEF LoopType
  <2> QED BY <1>0, <1>1, <2>1, <2>2
<1>8. ASSUME NEW r \in Pods, SessionEnds(r) \/ Restart(r)
      PROVE  loop'[p] = loop[p] \/ (p = r /\ loop'[p].pc = "dial")
  BY <1>0, <1>1, <1>8 DEF SessionEnds, Restart
<1>9. ASSUME NEW r \in Pods, Log(r) \/ LoggerStops(r) \/ HandlerError(r) \/ Signal(r) \/ LoseChannel(r)
             \/ \E q \in Queues : Forward(r, q)
      PROVE  loop' = loop
  BY <1>9 DEF Log, LoggerStops, HandlerError, Signal, LoseChannel, Forward
<1>10. ASSUME NEW q \in Queues, Activate(q) \/ Deliver(q) PROVE loop' = loop
  BY <1>10 DEF Activate, Deliver
<1> QED
  BY <1>2, <1>3, <1>4, <1>5, <1>6, <1>7, <1>8, <1>9, <1>10, Steps, Zenon DEF Calm

\* A channel is open from the dial on, and its consumers are added one by one.
LEMMA ChannelStep ==
  ASSUME TInv, Next
  PROVE  /\ up' \subseteq {p \in Pods : loop'[p].pc \notin {"dial", "done"}}
         /\ active' \in [Queues -> up' \cup {Nobody}]
         /\ consuming' \in [Pods -> SUBSET Queues]
         /\ \A p \in Pods \ up' : consuming'[p] = {}
<1>0. /\ up \subseteq Pods /\ active \in [Queues -> up \cup {Nobody}]
      /\ consuming \in [Pods -> SUBSET Queues] /\ \A p \in Pods \ up : consuming[p] = {}
      /\ \A p \in up : loop[p].pc \notin {"dial", "done"}
  BY DEF TInv, TypeOK
<1>1. /\ up' \subseteq Pods /\ active' \in [Queues -> up' \cup {Nobody}]
      /\ consuming' \in [Pods -> SUBSET Queues] /\ \A p \in Pods \ up' : consuming'[p] = {}
  <2>1. ASSUME NEW q \in Queues, Activate(q)
        PROVE  up' = up /\ active' \in [Queues -> up \cup {Nobody}] /\ consuming' = consuming
    BY <1>0, <2>1 DEF Activate
  <2>2. ASSUME NEW p \in Pods, Dial(p)
        PROVE  up' = up \cup {p} /\ UNCHANGED <<active, consuming>>
    BY <2>2 DEF Dial
  <2>3. ASSUME NEW p \in Pods, Consume(p)
        PROVE  /\ UNCHANGED <<active, up>> /\ consuming' \in [Pods -> SUBSET Queues]
               /\ \A r \in Pods \ up : consuming'[r] = {}
    <3>1. loop[p].pc = "consume" /\ consuming[p] # Queues /\ p \in up /\ UNCHANGED <<active, up>>
      BY <2>3 DEF Consume, TInv, Shape
    <3> DEFINE c == CHOOSE q \in Queues : q \notin consuming[p]
    <3>2. \E q \in Queues : q \notin consuming[p]
      BY <1>0, <3>1
    <3>3. c \in Queues
      BY <3>2
    <3>4. consuming' = [consuming EXCEPT ![p] = @ \cup {c}]
      BY <1>0, <2>3 DEF Consume
    <3> HIDE DEF c
    <3> QED BY <1>0, <3>1, <3>3, <3>4
  <2>4. ASSUME NEW p \in Pods, ChannelClosed(p)
        PROVE  /\ up' = up \ {p} /\ consuming' = [consuming EXCEPT ![p] = {}]
               /\ active' \in [Queues -> (up \ {p}) \cup {Nobody}]
    BY <1>0, <2>4 DEF ChannelClosed
  <2>5. \/ UNCHANGED <<active, up, consuming>>
        \/ \E q \in Queues : Activate(q)
        \/ \E p \in Pods : Dial(p) \/ Consume(p) \/ ChannelClosed(p)
    BY Steps, WipesWipe DEF Wiped, Deliver, Forward, LoseChannel, Route, RouteFails, Ack, Nack,
      Settle, Calm, Report, SessionEnds, Restart, Log, LoggerStops, HandlerError, Signal, broker
  <2> QED BY <1>0, <2>1, <2>2, <2>3, <2>4, <2>5
<1>2. ASSUME NEW p \in up' PROVE loop'[p].pc \notin {"dial", "done"}
  <2>1. p \in Pods
    BY <1>1
  <2>2. p \in up \/ Dial(p)
    <3>1. ASSUME NEW r \in Pods, Dial(r) PROVE p \in up \/ p = r
      BY <3>1 DEF Dial
    <3>2. up' \subseteq up \/ \E r \in Pods : Dial(r)
      BY Steps, WipesWipe DEF Wiped, Activate, Deliver, Forward, LoseChannel, ChannelClosed, Route,
        RouteFails, Ack, Nack, Settle, Calm, Consume, Report, SessionEnds, Restart, Log,
        LoggerStops, HandlerError, Signal, broker
    <3> QED BY <3>1, <3>2
  <2>3. CASE Dial(p)
    BY <2>1, <2>3 DEF Dial, At, TInv, Shape
  <2>4. CASE p \in up
    <3>1. ~Wipes(p) /\ ~SessionEnds(p)
      BY <2>1, WipesWipe DEF Wiped, ChannelClosed, SessionEnds, broker
    <3>2. ~Restart(p)
      BY <1>0, <2>1, <2>4 DEF Restart, TInv, Shape
    <3> QED BY <1>0, <2>1, <2>4, <3>1, <3>2, Transitions
  <2> QED BY <2>2, <2>3, <2>4
<1> QED BY <1>1, <1>2

\* Messages stay in buffers of their own queue.
LEMMA BufferStep ==
  ASSUME TInv, Next
  PROVE  \A p \in Pods, q \in Queues : buffer'[p][q] \in Seq(OfQueue(q, Messages))
<1>0. /\ ready \subseteq Messages /\ buffer \in [Pods -> [Queues -> Seq(Messages)]]
      /\ \A p \in Pods, q \in Queues : buffer[p][q] \in Seq(OfQueue(q, Messages))
      /\ active \in [Queues -> Pods \cup {Nobody}] /\ Prefetch \in Nat
  BY CapsAssumption DEF TInv, TypeOK, Shape
<1>1. ASSUME NEW d \in Queues, Deliver(d), NEW p \in Pods, NEW q \in Queues
      PROVE  buffer'[p][q] \in Seq(OfQueue(q, Messages))
  <2> DEFINE m == First(d)
  <2>1. m \in OfQueue(d, Messages)
    BY <1>0, <1>1, FirstReady DEF Deliver, OfQueue
  <2>2. buffer' = [buffer EXCEPT ![active[d]][d] = Append(@, m)] /\ active[d] \in Pods
    BY <1>0, <1>1 DEF Deliver, First
  <2> HIDE DEF m
  <2>3. buffer'[p][q] = buffer[p][q] \/ (q = d /\ buffer'[p][q] = Append(buffer[p][q], m))
    BY <1>0, <2>2
  <2>4. buffer[p][q] \in Seq(OfQueue(q, Messages))
    BY <1>0
  <2>5. q = d => Append(buffer[p][q], m) \in Seq(OfQueue(q, Messages))
    BY <2>1, <2>4, AppendProperties
  <2> QED BY <2>3, <2>4, <2>5
<1>2. ASSUME NEW r \in Pods, NEW d \in Queues, Forward(r, d), NEW p \in Pods, NEW q \in Queues
      PROVE  buffer'[p][q] \in Seq(OfQueue(q, Messages))
  <2>1. buffer' = [buffer EXCEPT ![r][d] = Tail(@)] /\ buffer[r][d] # <<>>
    BY <1>2 DEF Forward
  <2>2. \/ buffer'[p][q] = buffer[p][q]
        \/ buffer[p][q] # <<>> /\ buffer'[p][q] = Tail(buffer[p][q])
    BY <1>0, <2>1
  <2>3. buffer[p][q] \in Seq(OfQueue(q, Messages))
    BY <1>0
  <2>4. buffer[p][q] # <<>> => Tail(buffer[p][q]) \in Seq(OfQueue(q, Messages))
    BY <2>3, HeadTailProperties
  <2> QED BY <2>2, <2>3, <2>4
<1>3. ASSUME NEW r \in Pods, LoseChannel(r), NEW p \in Pods, NEW q \in Queues
      PROVE  buffer'[p][q] \in Seq(OfQueue(q, Messages))
  <2>1. PICK kept \in [Queues -> 0 .. Prefetch] :
          buffer' = [buffer EXCEPT ![r] =
            [d \in Queues |-> SubSeq(@[d], 1, Min({kept[d], Len(@[d])}))]]
    BY <1>3 DEF LoseChannel
  <2>2. \/ buffer'[p][q] = buffer[p][q]
        \/ buffer'[p][q] = SubSeq(buffer[p][q], 1, Min({kept[q], Len(buffer[p][q])}))
    BY <1>0, <2>1
  <2>3. Min({kept[q], Len(buffer[p][q])}) \in 0 .. Len(buffer[p][q])
    <3>1. kept[q] \in Nat /\ Len(buffer[p][q]) \in Nat
      BY <1>0, LenProperties
    <3> QED BY <3>1, LeastOfTwo
  <2>4. \A S : \A s \in Seq(S) : \A k \in 0 .. Len(s) : SubSeq(s, 1, k) \in Seq(S)
    OBVIOUS
  <2> QED BY <1>0, <2>2, <2>3, <2>4
<1>4. ASSUME NEW r \in Pods, Wiped(r), NEW p \in Pods, NEW q \in Queues
      PROVE  buffer'[p][q] \in Seq(OfQueue(q, Messages))
  <2>1. buffer'[p] = buffer[p] \/ buffer'[p] = Empty
    BY <1>0, <1>4 DEF Wiped
  <2>2. Empty[q] = <<>> /\ <<>> \in Seq(OfQueue(q, Messages))
    BY DEF Empty
  <2> QED BY <1>0, <2>1, <2>2
<1>5. \/ buffer' = buffer \/ \E q \in Queues : Deliver(q)
      \/ \E p \in Pods : LoseChannel(p) \/ Wiped(p) \/ \E q \in Queues : Forward(p, q)
  BY Steps, WipesWipe DEF Activate, Route, RouteFails, Ack, Nack, Settle, Calm, Dial, Consume,
    Report, SessionEnds, Restart, Log, LoggerStops, HandlerError, Signal, inputs
<1> QED BY <1>0, <1>1, <1>2, <1>3, <1>4, <1>5

\* A pod whose loop dials or is done holds nothing: the two ways there empty it.
LEMMA DrainStep ==
  ASSUME TInv, Next, NEW p \in Pods, loop'[p].pc \in {"dial", "done"}
  PROVE  buffer'[p] = Empty /\ merged'[p] = <<>>
<1>0. /\ buffer \in [Pods -> [Queues -> Seq(Messages)]] /\ merged \in [Pods -> Seq(Messages)]
      /\ loop[p].pc \in {"dial", "done"} => buffer[p] = Empty /\ merged[p] = <<>> /\ p \notin up
      /\ active \in [Queues -> up \cup {Nobody}]
      /\ process[p] = "exited" => loop[p].pc = "done"
  BY DEF TInv, TypeOK, Shape
<1>1. CASE Wipes(p)
  <2>1. /\ buffer' = [buffer EXCEPT ![p] = Empty] /\ merged' = [merged EXCEPT ![p] = <<>>]
    BY <1>1, WipesWipe DEF Wiped
  <2> QED BY <1>0, <2>1
<1>2. CASE SessionEnds(p)
  BY <1>2 DEF SessionEnds, inputs
<1>3. CASE Restart(p)
  BY <1>0, <1>3 DEF Restart, inputs
<1>4. CASE loop'[p] = loop[p]
  <2>1. buffer[p] = Empty /\ merged[p] = <<>> /\ p \notin up
    BY <1>0, <1>4
  <2>2. \A q \in Queues : buffer[p][q] = <<>>
    BY <2>1 DEF Empty
  <2>3. ASSUME NEW q \in Queues, Deliver(q) PROVE buffer'[p] = buffer[p] /\ merged' = merged
    <3>1. p # active[q] /\ merged' = merged
      BY <1>0, <2>1, <2>3 DEF Deliver
    <3>2. buffer' = [buffer EXCEPT ![active[q]][q] = Append(@, First(q))]
      BY <2>3 DEF Deliver, First
    <3> QED BY <1>0, <3>1, <3>2
  <2>4. ASSUME NEW r \in Pods, NEW q \in Queues, Forward(r, q)
        PROVE  buffer'[p] = buffer[p] /\ merged'[p] = merged[p]
    BY <1>0, <2>2, <2>4 DEF Forward
  <2>5. ASSUME NEW r \in Pods, Route(r) \/ RouteFails(r)
        PROVE  buffer'[p] = buffer[p] /\ merged'[p] = merged[p]
    BY <1>0, <2>1, <2>5 DEF Route, RouteFails, Receive
  <2>6. ASSUME NEW r \in Pods, LoseChannel(r) PROVE buffer'[p] = buffer[p] /\ merged'[p] = merged[p]
    <3>1. r # p /\ merged' = merged
      BY <2>1, <2>6 DEF LoseChannel
    <3>2. PICK x : buffer' = [buffer EXCEPT ![r] = x]
      BY <2>6 DEF LoseChannel
    <3> QED BY <1>0, <3>1, <3>2
  <2>7. ASSUME NEW r \in Pods, Wipes(r)
        PROVE  buffer'[p] \in {buffer[p], Empty} /\ merged'[p] \in {merged[p], <<>>}
    BY <1>0, <2>7, WipesWipe DEF Wiped
  <2>8. \/ UNCHANGED <<buffer, merged>>
        \/ \E q \in Queues : Deliver(q)
        \/ \E r \in Pods : \/ Route(r) \/ RouteFails(r) \/ LoseChannel(r) \/ Wipes(r)
                           \/ \E q \in Queues : Forward(r, q)
    BY Steps DEF Activate, Ack, Nack, Settle, Calm, Dial, Consume, Report, SessionEnds, Restart,
      Log, LoggerStops, HandlerError, Signal, inputs
  <2> QED BY <2>1, <2>3, <2>4, <2>5, <2>6, <2>7, <2>8
<1> QED BY <1>1, <1>2, <1>3, <1>4, Transitions

LEMMA ShapeStep == ASSUME TInv, Next PROVE Shape'
<1>1. /\ buffer' \in [Pods -> [Queues -> Seq(Messages)]] /\ merged' \in [Pods -> Seq(Messages)]
      /\ loop' \in [Pods -> LoopType] /\ errors' \in [Pods -> 0 .. ErrorsCap]
      /\ process' \in [Pods -> {"running", "signalled", "exited"}]
  BY InputType, LoopStep, ProcessType
<1>2. active' \in [Queues -> Pods \cup {Nobody}]
  BY ChannelStep
<1>3. ASSUME NEW p \in Pods, process'[p] = "exited" PROVE loop'[p].pc = "done"
  <2>0. /\ process \in [Pods -> {"running", "signalled", "exited"}] /\ loop \in [Pods -> LoopType]
        /\ process[p] = "exited" => loop[p].pc = "done"
    BY DEF TInv, Shape, LoopType
  <2>1. ASSUME NEW r \in Pods, Gone(r) PROVE process'[p] = process[p] \/ loop'[p].pc = "done"
    BY <2>0, <2>1 DEF Gone, At
  <2>2. ASSUME NEW r \in Pods, Signal(r) \/ Restart(r) PROVE process'[p] = process[p]
    BY <1>3, <2>0, <2>2 DEF Signal, Restart
  <2>3. process' = process \/ \E r \in Pods : Gone(r) \/ Signal(r) \/ Restart(r)
    BY Steps DEF Activate, Deliver, Forward, LoseChannel, Route, RouteFails, Ack, Nack, Settle,
      Calm, Dial, Consume, Report, SessionEnds, Log, LoggerStops, HandlerError, Wipes,
      ConsumeFails, ConsumeError, LoopStops, Exit, Timeout, Kill
  <2>4. CASE process'[p] = process[p]
    <3>1. process[p] = "exited" /\ loop[p].pc = "done"
      BY <1>3, <2>0, <2>4
    <3>2. /\ ~Dial(p) /\ ~Consume(p) /\ ~Route(p) /\ ~RouteFails(p) /\ ~Ack(p) /\ ~Nack(p)
          /\ ~Report(p) /\ ~SessionEnds(p) /\ ~Wipes(p)
      BY <3>1 DEF Dial, Consume, Route, RouteFails, Receive, Ack, Nack, Report, SessionEnds, Wipes,
        ConsumeFails, ConsumeError, LoopStops, Exit, Timeout, Kill
    <3>3. ~Restart(p)
      BY <1>3, <2>0 DEF Restart
    <3> QED BY <3>1, <3>2, <3>3, Transitions
  <2> QED BY <2>1, <2>2, <2>3, <2>4
<1>4. ASSUME NEW p \in Pods, loop'[p].pc = "consume" PROVE consuming'[p] # Queues
  <2>0. /\ consuming \in [Pods -> SUBSET Queues] /\ loop \in [Pods -> LoopType]
        /\ loop[p].pc = "consume" => consuming[p] # Queues
        /\ loop[p].pc = "dial" => consuming[p] = {}
    BY DEF TInv, TypeOK, Shape, LoopType
  <2>1. CASE Dial(p)
    BY <2>0, <2>1, QueuesAssumption DEF Dial
  <2>2. ASSUME ~Dial(p) PROVE loop'[p] = loop[p] /\ consuming[p] # Queues
    BY <1>4, <2>0, <2>2, Transitions
  <2>3. ASSUME ~Dial(p), NEW r \in Pods, Consume(r) PROVE consuming'[p] # Queues
    <3>1. CASE r = p
      <4>1. ASSUME consuming'[p] = Queues PROVE FALSE
        <5>1. loop' = [loop EXCEPT ![p] = At("receive")]
          BY <2>3, <3>1, <4>1 DEF Consume
        <5> QED BY <1>4, <2>0, <5>1 DEF At
      <4> QED BY <4>1
    <3>2. CASE r # p
      <4>1. consuming'[p] = consuming[p]
        BY <2>0, <2>3, <3>2 DEF Consume
      <4> QED BY <2>2, <2>3, <4>1
    <3> QED BY <3>1, <3>2
  <2>4. ASSUME NEW r \in Pods, ChannelClosed(r) PROVE consuming'[p] \in {consuming[p], {}}
    BY <2>0, <2>4 DEF ChannelClosed
  <2>5. consuming' = consuming \/ \E r \in Pods : Consume(r) \/ ChannelClosed(r)
    BY Steps, WipesWipe DEF Wiped, Activate, Deliver, Forward, LoseChannel, Route, RouteFails, Ack,
      Nack, Settle, Calm, Dial, Report, SessionEnds, Restart, Log, LoggerStops, HandlerError,
      Signal, broker
  <2> QED BY <2>1, <2>2, <2>3, <2>4, <2>5, QueuesAssumption
<1> QED BY <1>1, <1>2, <1>3, <1>4, DrainStep DEF Shape, LoopType

LEMMA NextType == ASSUME TInv, Next PROVE TInv'
<1>1. Shape'
  BY ShapeStep
<1>2. /\ ready' \subseteq Messages /\ settled' \subseteq Messages /\ handled' \subseteq Messages
      /\ unacked' \in [Pods -> SUBSET Messages]
  BY BrokerType
<1>3. /\ up' \subseteq {p \in Pods : loop'[p].pc \notin {"dial", "done"}}
      /\ active' \in [Queues -> up' \cup {Nobody}]
      /\ consuming' \in [Pods -> SUBSET Queues]
      /\ \A p \in Pods \ up' : consuming'[p] = {}
  BY ChannelStep
<1>4. /\ logger' \subseteq Pods /\ faults' \in 0 .. MaxFaults
      /\ \A p \in Pods : Len(merged'[p]) <= MergedCap
      /\ \A p \in Pods, q \in Queues : buffer'[p][q] \in Seq(OfQueue(q, Messages))
  BY ProcessType, InputType, BufferStep
<1>5. TypeOK'
  BY <1>1, <1>2, <1>3, <1>4 DEF TypeOK, Shape
<1> QED BY <1>1, <1>5 DEF TInv

LEMMA InitType == Init => TInv
<1> SUFFICES ASSUME Init PROVE TInv
  OBVIOUS
<1>1. \A q \in Queues : <<>> \in Seq(OfQueue(q, Messages)) /\ Empty[q] = <<>>
  BY DEF Empty
<1>2. At("dial") \in [pc : LoopPCs, msg : Messages \cup {<<>>}] /\ At("dial").pc = "dial"
  BY EmptyType DEF LoopPCs
<1>3. 0 \in 0 .. ErrorsCap /\ 0 \in 0 .. MaxFaults /\ Len(<<>>) <= MergedCap
  BY CapsAssumption, FaultsAssumption
<1>4. Shape
  BY <1>2, <1>3, EmptyType DEF Init, Shape
<1>5. TypeOK
  BY <1>1, <1>2, <1>3, <1>4 DEF Init, TypeOK, Shape
<1> QED BY <1>4, <1>5 DEF TInv

LEMMA StutterType == ASSUME TInv, UNCHANGED vars PROVE TInv'
BY DEF TInv, TypeOK, Shape, vars, broker, inputs

LEMMA TypeInvariant == Spec => []TInv
<1>1. TInv /\ [Next]_vars => TInv'
  BY NextType, StutterType
<1> QED BY <1>1, InitType, PTL DEF Spec

\* Every variable keeps its type, every Go channel stays within its capacity, and no channel
\* is left open by a dial that failed or by a loop that has gone.
THEOREM TypeCorrect == Spec => []TypeOK
<1>1. TInv => TypeOK
  BY DEF TInv
<1> QED BY <1>1, TypeInvariant, PTL

-----------------------------------------------------------------------------
(* Deliveries.                                                             *)

\* A pod that a step leaves alone.
Same(p) == buffer'[p] = buffer[p] /\ merged'[p] = merged[p] /\ loop'[p] = loop[p]

LEMMA SameSets ==
  ASSUME NEW p \in Pods, Same(p)
  PROVE  /\ InLoop(p)' = InLoop(p) /\ Pending(p)' = Pending(p) /\ InMerged(p)' = InMerged(p)
         /\ InOrder(p) => InOrder(p)'
BY DEF Same, InLoop, Pending, InMerged, InBuffer, InOrder

LEMMA Held ==
  ASSUME TInv, NEW p \in Pods
  PROVE  /\ Pending(p) \subseteq Messages /\ InMerged(p) \subseteq Messages
         /\ \A q \in Queues : \A m \in InBuffer(p, q) : m \in Pending(p) /\ m[1] = q
         /\ \A m \in Pending(p) : m \in InMerged(p) \/ m \in InBuffer(p, m[1])
<1>1. ASSUME NEW S, NEW s \in Seq(S) PROVE Elems(s) \subseteq S
  BY <1>1, LenProperties DEF Elems
<1>2. merged[p] \in Seq(Messages) /\ \A q \in Queues : buffer[p][q] \in Seq(OfQueue(q, Messages))
  BY DEF TInv, TypeOK
<1>3. InMerged(p) \subseteq Messages
  BY <1>1, <1>2 DEF InMerged
<1>4. \A q \in Queues : InBuffer(p, q) \subseteq OfQueue(q, Messages)
  BY <1>1, <1>2 DEF InBuffer
<1> QED BY <1>3, <1>4 DEF Pending, OfQueue

\* The broker's side and the pods' side of what has to be shown.
LEMMA Assemble ==
  ASSUME TInv',
         Turns', Kept', FirstHandledInOrder',
         \A p \in Pods : InOrder(p)',
         \A p \in Pods : p \in up' => (Pending(p)' \cup InLoop(p)') \subseteq unacked'[p],
         \A p \in Pods : \A m \in Pending(p)', n \in Messages :
           n[1] = m[1] /\ n[2] < m[2] => n \in Pending(p)' \cup handled'
  PROVE  PInv'
<1>1. up' \subseteq Pods
  BY DEF TInv, TypeOK
<1>2. Known' /\ Ordered' /\ NoGap'
  BY <1>1 DEF Known, Ordered, NoGap
<1> QED BY <1>2 DEF PInv

\* Nothing is delivered, taken, settled or lost.
LEMMA StillPInv ==
  ASSUME PInv, TInv', UNCHANGED <<ready, unacked, settled, handled, buffer, merged>>,
         \A p \in Pods : InLoop(p)' \subseteq InLoop(p),
         \A p \in Pods : \A m \in unacked[p] : active'[m[1]] = active[m[1]],
         \A p \in up' : p \in up \/ (Pending(p) = {} /\ InLoop(p)' = {})
  PROVE  PInv'
<1>1. \A p \in Pods : Pending(p)' = Pending(p) /\ InMerged(p)' = InMerged(p)
                      /\ \A q \in Queues : InBuffer(p, q)' = InBuffer(p, q)
  BY DEF Pending, InMerged, InBuffer
<1>2. Turns' /\ FirstHandledInOrder'
  BY DEF PInv, Turns, FirstHandledInOrder
<1>3. Kept'
  BY <1>1 DEF PInv, Kept
<1>4. \A p \in Pods : InOrder(p)'
  BY <1>1 DEF PInv, Ordered, InOrder, Before
<1>5. \A p \in Pods : p \in up' => (Pending(p)' \cup InLoop(p)') \subseteq unacked'[p]
  BY <1>1 DEF PInv, Known
<1>6. \A p \in Pods : \A m \in Pending(p)', n \in Messages :
           n[1] = m[1] /\ n[2] < m[2] => n \in Pending(p)' \cup handled'
  BY <1>1 DEF PInv, NoGap
<1> QED BY <1>2, <1>3, <1>4, <1>5, <1>6, Assemble

LEMMA CalmStep == ASSUME PInv, TInv', NEW p \in Pods, Calm(p) PROVE PInv'
<1>0. /\ loop \in [Pods -> LoopType] /\ up \subseteq Pods
      /\ loop[p].pc = "dial" => buffer[p] = Empty /\ merged[p] = <<>>
  BY DEF PInv, TInv, TypeOK, Shape, LoopType
<1>1. UNCHANGED <<ready, active, unacked, settled, handled, buffer, merged>>
  BY DEF Calm, Dial, Consume, Report, SessionEnds, Restart, Log, LoggerStops, HandlerError, Signal,
    broker, inputs
<1>2. /\ \A r \in Pods \ {p} : loop'[r] = loop[r]
      /\ \/ loop'[p] = loop[p] \/ loop'[p].pc \in {"consume", "receive", "dial"}
         \/ loop[p].pc = "routeFailed" /\ loop'[p].msg = loop[p].msg
  <2>1. CASE Report(p)
    <3> DEFINE x == [loop[p] EXCEPT !.pc = "nack"]
    <3>1. \/ loop' = [loop EXCEPT ![p] = At("receive")]
          \/ loop[p].pc = "routeFailed" /\ loop' = [loop EXCEPT ![p] = x]
      BY <1>0, <2>1 DEF Report
    <3>2. x.msg = loop[p].msg
      BY <1>0 DEF LoopType
    <3>3. At("receive").pc = "receive"
      BY DEF At
    <3> HIDE DEF x
    <3> QED BY <1>0, <3>1, <3>2, <3>3
  <2>2. CASE ~Report(p)
    <3>1. \/ loop' = loop \/ loop' = [loop EXCEPT ![p] = At("consume")]
          \/ loop' = [loop EXCEPT ![p] = At("receive")] \/ loop' = [loop EXCEPT ![p] = At("dial")]
      BY <2>2 DEF Calm, Dial, Consume, SessionEnds, Restart, Log, LoggerStops, HandlerError, Signal
    <3> QED BY <1>0, <3>1 DEF At
  <2> QED BY <2>1, <2>2
<1>3. \A r \in Pods : InLoop(r)' \subseteq InLoop(r)
  BY <1>2 DEF InLoop
<1>4. \A r \in up' : r \in up \/ (Pending(r) = {} /\ InLoop(r)' = {})
  <2>1. CASE Dial(p)
    <3>1. up' = up \cup {p} /\ loop[p].pc = "dial" /\ loop'[p].pc = "consume"
      BY <1>0, <2>1 DEF Dial, At
    <3>2. Elems(<<>>) = {} /\ \A q \in Queues : Empty[q] = <<>>
      BY DEF Elems, Empty
    <3>3. Pending(p) = {} /\ InLoop(p)' = {}
      BY <1>0, <3>1, <3>2 DEF Pending, InMerged, InBuffer, InLoop
    <3> QED BY <3>1, <3>3
  <2>2. CASE ~Dial(p)
    BY <2>2 DEF Calm, Consume, Report, SessionEnds, Restart, Log, LoggerStops, HandlerError, Signal,
      broker
  <2> QED BY <2>1, <2>2
<1> QED BY <1>1, <1>3, <1>4, StillPInv

LEMMA ActivateStep == ASSUME PInv, TInv', NEW q \in Queues, Activate(q) PROVE PInv'
<1>1. UNCHANGED <<ready, unacked, settled, up, buffer, merged, loop, handled>>
  BY DEF Activate, inputs
<1>2. \A p \in Pods : InLoop(p)' \subseteq InLoop(p)
  BY <1>1 DEF InLoop
<1>3. active[q] = Nobody /\ \A d \in Queues \ {q} : active'[d] = active[d]
  BY DEF Activate, PInv, TInv, Shape
<1>4. \A p \in Pods : \A m \in unacked[p] : active'[m[1]] = active[m[1]]
  <2> SUFFICES ASSUME NEW p \in Pods, NEW m \in unacked[p] PROVE active'[m[1]] = active[m[1]]
    OBVIOUS
  <2>1. active[m[1]] = p /\ m \in Messages
    BY DEF PInv, Turns, TInv, TypeOK
  <2>2. m[1] \in Queues /\ m[1] # q
    BY <1>3, <2>1, MessageType, NobodyAssumption
  <2> QED BY <1>3, <2>2
<1> QED BY <1>1, <1>2, <1>4, StillPInv

LEMMA DeliverStep == ASSUME PInv, TInv', NEW q \in Queues, Deliver(q) PROVE PInv'
<1>0. /\ TInv /\ ready \subseteq Messages /\ buffer \in [Pods -> [Queues -> Seq(Messages)]]
      /\ unacked \in [Pods -> SUBSET Messages] /\ active \in [Queues -> up \cup {Nobody}]
      /\ up \subseteq Pods /\ loop \in [Pods -> LoopType] /\ merged \in [Pods -> Seq(Messages)]
      /\ settled \subseteq handled
  BY DEF PInv, TInv, TypeOK, Shape, LoopType, Kept
<1>1. PICK p \in Pods : p = active[q] /\ p \in up /\ OfQueue(q, ready) # {}
  BY <1>0 DEF Deliver
<1>2. PICK m \in Messages :
        m = First(q) /\ m \in ready /\ m[1] = q /\ \A n \in ready : n[1] = q => m[2] <= n[2]
  BY <1>0, <1>1, FirstReady
<1>3. /\ ready' = ready \ {m} /\ unacked' = [unacked EXCEPT ![p] = @ \cup {m}]
      /\ buffer' = [buffer EXCEPT ![p][q] = Append(@, m)]
      /\ UNCHANGED <<active, settled, up, merged, loop, handled>>
  BY <1>1, <1>2 DEF Deliver, First
<1>4. \A r \in Pods \ {p} : Same(r) /\ unacked'[r] = unacked[r]
  BY <1>0, <1>3 DEF Same
<1>5. /\ unacked'[p] = unacked[p] \cup {m} /\ merged'[p] = merged[p] /\ loop'[p] = loop[p]
      /\ buffer'[p][q] = Append(buffer[p][q], m)
      /\ \A d \in Queues \ {q} : buffer'[p][d] = buffer[p][d]
  BY <1>0, <1>1, <1>3
<1>6. /\ InBuffer(p, q)' = InBuffer(p, q) \cup {m} /\ InMerged(p)' = InMerged(p)
      /\ InLoop(p)' = InLoop(p) /\ \A d \in Queues \ {q} : InBuffer(p, d)' = InBuffer(p, d)
      /\ Sorted(buffer[p][q]) /\ Before(InBuffer(p, q), {m}) => Sorted(buffer'[p][q])
  <2>0. buffer[p][q] \in Seq(Messages) /\ m \in Messages
    BY <1>0, <1>1, <1>2
  <2>1. /\ Elems(Append(buffer[p][q], m)) = Elems(buffer[p][q]) \cup {m}
        /\ Sorted(buffer[p][q]) /\ Before(Elems(buffer[p][q]), {m}) => Sorted(Append(buffer[p][q], m))
    BY <2>0, Appended
  <2>2. InMerged(p)' = InMerged(p) /\ InLoop(p)' = InLoop(p)
    BY <1>5 DEF InMerged, InLoop
  <2> QED BY <1>5, <2>1, <2>2 DEF InBuffer
<1>7. Pending(p)' = Pending(p) \cup {m}
  BY <1>6 DEF Pending
<1>8. Pending(p) \cup InLoop(p) \subseteq unacked[p] /\ Before(unacked[p], {m})
  BY <1>1, <1>2 DEF PInv, Known, Turns, Before
<1>9. InOrder(p)'
  <2>1. /\ Before(InLoop(p), Pending(p)) /\ Sorted(merged[p])
        /\ \A d \in Queues : Sorted(buffer[p][d]) /\ Before(InMerged(p), InBuffer(p, d))
    BY <1>1 DEF PInv, Ordered, InOrder
  <2>2. Before(InLoop(p)', Pending(p)')
    BY <1>6, <1>7, <1>8, <2>1 DEF Before
  <2>3. InMerged(p) \subseteq Pending(p) /\ InBuffer(p, q) \subseteq Pending(p)
    BY DEF Pending
  <2>4. \A d \in Queues : Before(InMerged(p)', InBuffer(p, d)')
    BY <1>6, <1>8, <2>1, <2>3 DEF Before
  <2>5. Sorted(buffer'[p][q])
    BY <1>6, <1>8, <2>1, <2>3 DEF Before
  <2>6. Sorted(merged'[p]) /\ \A d \in Queues : Sorted(buffer'[p][d])
    BY <1>5, <2>1, <2>5
  <2> QED BY <2>2, <2>4, <2>6 DEF InOrder
<1>10. \A r \in Pods : InOrder(r)'
  BY <1>4, <1>9, SameSets DEF PInv, Ordered
<1>11. \A r \in Pods : r \in up' => (Pending(r)' \cup InLoop(r)') \subseteq unacked'[r]
  BY <1>3, <1>4, <1>5, <1>6, <1>7, <1>8, SameSets DEF PInv, Known
<1>12. ASSUME NEW r \in Pods, NEW n \in Pending(r)', NEW k \in Messages, k[1] = n[1], k[2] < n[2]
       PROVE  k \in Pending(r)' \cup handled'
  <2>1. CASE r # p
    BY <1>3, <1>4, <1>12, <2>1, SameSets DEF PInv, NoGap
  <2>2. CASE r = p /\ n # m
    BY <1>3, <1>7, <1>12, <2>2 DEF PInv, NoGap
  <2>3. CASE r = p /\ n = m
    <3>1. k \notin ready
      BY <1>2, <1>12, <2>3, MessageType
    <3>2. CASE k \in settled
      BY <1>0, <1>3, <3>2
    <3>3. CASE \E s \in Pods : k \in unacked[s]
      <4>1. k \in unacked[p]
        BY <1>1, <1>2, <1>12, <2>3, <3>3 DEF PInv, Turns
      <4> QED BY <1>1, <1>3, <1>7, <2>3, <4>1 DEF PInv, Kept
    <3> QED BY <3>1, <3>2, <3>3 DEF PInv, Kept
  <2> QED BY <2>1, <2>2, <2>3
<1>13. Turns'
  <2>1. \A r \in Pods : \A n \in unacked'[r] : active'[n[1]] = r
    BY <1>1, <1>2, <1>3, <1>4, <1>5 DEF PInv, Turns
  <2>2. \A r \in Pods : Before(unacked[r], ready')
    BY <1>3 DEF PInv, Turns, Before
  <2>3. Before({m}, ready')
    <3>1. ASSUME NEW n \in ready', n[1] = q PROVE m[2] < n[2]
      <4>1. n \in ready /\ n \in Messages /\ n # m /\ m[2] <= n[2]
        BY <1>0, <1>2, <1>3, <3>1
      <4>2. n = <<n[1], n[2]>> /\ m = <<m[1], m[2]>> /\ n[2] \in Nat /\ m[2] \in Nat
        BY <1>2, <4>1, MessageType
      <4>3. n[2] # m[2]
        BY <1>2, <3>1, <4>1, <4>2
      <4> QED BY <4>1, <4>2, <4>3
    <3> QED BY <1>2, <3>1 DEF Before
  <2>4. \A r \in Pods : Before(unacked'[r], ready')
    BY <1>4, <1>5, <2>2, <2>3 DEF Before
  <2> QED BY <2>1, <2>4 DEF Turns
<1>14. Kept'
  <2>1. \A n \in Messages : n \in ready' \/ n \in settled' \/ \E r \in Pods : n \in unacked'[r]
    BY <1>1, <1>3, <1>4, <1>5 DEF PInv, Kept
  <2>2. \A r \in Pods : InLoop(r)' \subseteq handled' /\ unacked'[r] \subseteq Pending(r)' \cup handled'
    BY <1>3, <1>4, <1>5, <1>6, <1>7, SameSets DEF PInv, Kept
  <2> QED BY <1>0, <1>3, <2>1, <2>2 DEF Kept
<1>15. FirstHandledInOrder'
  BY <1>3 DEF PInv, FirstHandledInOrder
<1> QED BY <1>10, <1>11, <1>12, <1>13, <1>14, <1>15, Assemble

LEMMA ForwardStep == ASSUME PInv, TInv', NEW p \in Pods, NEW q \in Queues, Forward(p, q) PROVE PInv'
<1> DEFINE h == Head(buffer[p][q])
<1>0. /\ TInv /\ buffer \in [Pods -> [Queues -> Seq(Messages)]] /\ merged \in [Pods -> Seq(Messages)]
      /\ up \subseteq Pods
  BY DEF PInv, TInv, TypeOK, Shape
<1>1. /\ buffer[p][q] # <<>> /\ merged' = [merged EXCEPT ![p] = Append(@, h)]
      /\ buffer' = [buffer EXCEPT ![p][q] = Tail(@)]
      /\ UNCHANGED <<ready, active, unacked, settled, up, loop, handled>>
  BY DEF Forward, broker
<1>2. /\ h \in Messages /\ InBuffer(p, q) = {h} \cup Elems(Tail(buffer[p][q]))
      /\ Sorted(buffer[p][q]) => /\ Sorted(Tail(buffer[p][q]))
                                 /\ Before({h}, Elems(Tail(buffer[p][q])))
  <2>1. buffer[p][q] \in Seq(Messages)
    BY <1>0
  <2> QED BY <1>1, <2>1, Taken DEF InBuffer
<1>3. \A r \in Pods \ {p} : Same(r)
  BY <1>0, <1>1 DEF Same
<1> HIDE DEF h
<1>4. /\ InMerged(p)' = InMerged(p) \cup {h} /\ InLoop(p)' = InLoop(p)
      /\ Sorted(merged[p]) /\ Before(InMerged(p), {h}) => Sorted(merged'[p])
  <2>1. /\ Elems(Append(merged[p], h)) = Elems(merged[p]) \cup {h}
        /\ Sorted(merged[p]) /\ Before(Elems(merged[p]), {h}) => Sorted(Append(merged[p], h))
    BY <1>0, <1>2, Appended
  <2>2. merged'[p] = Append(merged[p], h) /\ loop'[p] = loop[p]
    BY <1>0, <1>1
  <2> QED BY <2>1, <2>2 DEF InMerged, InLoop
<1>5. /\ InBuffer(p, q)' = Elems(Tail(buffer[p][q])) /\ buffer'[p][q] = Tail(buffer[p][q])
      /\ \A d \in Queues \ {q} : buffer'[p][d] = buffer[p][d] /\ InBuffer(p, d)' = InBuffer(p, d)
  <2>1. /\ buffer'[p][q] = Tail(buffer[p][q])
        /\ \A d \in Queues \ {q} : buffer'[p][d] = buffer[p][d]
    BY <1>0, <1>1
  <2> QED BY <2>1 DEF InBuffer
<1>6. Pending(p)' = Pending(p)
  <2>1. \A d \in Queues : InBuffer(p, d)' \subseteq InBuffer(p, d) /\ InBuffer(p, d) \subseteq InBuffer(p, d)' \cup {h}
    BY <1>2, <1>5
  <2>2. h \in InBuffer(p, q) /\ h \in InMerged(p)'
    BY <1>2, <1>4
  <2> QED BY <1>4, <2>1, <2>2 DEF Pending
<1>7. InOrder(p)'
  <2>1. /\ Before(InLoop(p), Pending(p)) /\ Sorted(merged[p])
        /\ \A d \in Queues : Sorted(buffer[p][d]) /\ Before(InMerged(p), InBuffer(p, d))
    BY DEF PInv, Ordered, InOrder
  <2>2. h \in InBuffer(p, q) /\ h[1] = q /\ \A d \in Queues : \A m \in InBuffer(p, d) : m[1] = d
    BY <1>0, <1>2, Held
  <2>3. Before(InMerged(p), {h})
    BY <2>1, <2>2 DEF Before
  <2>4. Sorted(merged'[p]) /\ \A d \in Queues : Sorted(buffer'[p][d])
    BY <1>2, <1>4, <1>5, <2>1, <2>3
  <2>5. ASSUME NEW d \in Queues PROVE Before(InMerged(p)', InBuffer(p, d)')
    <3>1. Before({h}, InBuffer(p, d)')
      <4>1. CASE d = q
        BY <1>2, <1>5, <2>1, <4>1
      <4>2. CASE d # q
        BY <1>5, <2>2, <4>2 DEF Before
      <4> QED BY <4>1, <4>2
    <3>2. InBuffer(p, d)' \subseteq InBuffer(p, d)
      BY <1>2, <1>5
    <3> QED BY <1>4, <2>1, <3>1, <3>2 DEF Before
  <2>6. Before(InLoop(p)', Pending(p)')
    BY <1>4, <1>6, <2>1
  <2> QED BY <2>4, <2>5, <2>6 DEF InOrder
<1>8. \A r \in Pods : Pending(r)' = Pending(r) /\ InLoop(r)' = InLoop(r)
  BY <1>3, <1>4, <1>6, SameSets
<1>9. \A r \in Pods : InOrder(r)'
  BY <1>3, <1>7, SameSets DEF PInv, Ordered
<1>10. \A r \in Pods : r \in up' => (Pending(r)' \cup InLoop(r)') \subseteq unacked'[r]
  BY <1>1, <1>8 DEF PInv, Known
<1>11. \A r \in Pods : \A m \in Pending(r)', n \in Messages :
         n[1] = m[1] /\ n[2] < m[2] => n \in Pending(r)' \cup handled'
  BY <1>1, <1>8 DEF PInv, NoGap
<1>12. Turns' /\ FirstHandledInOrder'
  BY <1>1 DEF PInv, Turns, FirstHandledInOrder
<1>13. Kept'
  BY <1>1, <1>8 DEF PInv, Kept
<1> QED BY <1>9, <1>10, <1>11, <1>12, <1>13, Assemble

\* The loop takes a message: those before it were handled, for the pod holds what was not.
LEMMA RouteStep == ASSUME PInv, TInv', NEW p \in Pods, Route(p) \/ RouteFails(p) PROVE PInv'
<1> DEFINE m == Head(merged[p])
<1>0. /\ TInv /\ buffer \in [Pods -> [Queues -> Seq(Messages)]] /\ merged \in [Pods -> Seq(Messages)]
      /\ up \subseteq Pods /\ loop \in [Pods -> LoopType]
  BY DEF PInv, TInv, TypeOK, Shape, LoopType
<1>1. /\ merged[p] # <<>> /\ merged' = [merged EXCEPT ![p] = Tail(@)]
      /\ handled' = handled \cup {m}
      /\ \/ loop' = [loop EXCEPT ![p] = [pc |-> "ack", msg |-> m]]
         \/ loop' = [loop EXCEPT ![p] = [pc |-> "routeFailed", msg |-> m]]
      /\ UNCHANGED <<ready, active, unacked, settled, up, buffer>>
  BY DEF Route, RouteFails, Receive, broker
<1>2. /\ m \in Messages /\ InMerged(p) = {m} \cup Elems(Tail(merged[p]))
      /\ Sorted(merged[p]) => Sorted(Tail(merged[p])) /\ Before({m}, Elems(Tail(merged[p])))
  BY <1>0, <1>1, Taken DEF InMerged
<1> HIDE DEF m
<1>3. \A r \in Pods \ {p} : Same(r)
  BY <1>0, <1>1 DEF Same
<1>4. /\ InMerged(p)' = Elems(Tail(merged[p])) /\ merged'[p] = Tail(merged[p])
      /\ InLoop(p)' = {m} /\ \A d \in Queues : InBuffer(p, d)' = InBuffer(p, d)
  <2>1. merged'[p] = Tail(merged[p]) /\ buffer'[p] = buffer[p]
    BY <1>0, <1>1
  <2>2. loop'[p].pc \in {"ack", "routeFailed"} /\ loop'[p].msg = m
    BY <1>0, <1>1
  <2> QED BY <2>1, <2>2 DEF InMerged, InLoop, InBuffer
<1>5. Pending(p) = Pending(p)' \cup {m}
  BY <1>2, <1>4 DEF Pending
<1>6. /\ Before(InLoop(p), Pending(p)) /\ Sorted(merged[p])
      /\ \A d \in Queues : Sorted(buffer[p][d]) /\ Before(InMerged(p), InBuffer(p, d))
  BY DEF PInv, Ordered, InOrder
<1>7. Before({m}, Pending(p)')
  <2>1. Before({m}, InMerged(p)') /\ \A d \in Queues : Before({m}, InBuffer(p, d)')
    BY <1>2, <1>4, <1>6 DEF Before
  <2> QED BY <2>1 DEF Before, Pending
<1>8. InOrder(p)'
  <2>1. Sorted(merged'[p]) /\ \A d \in Queues : Sorted(buffer'[p][d])
    BY <1>1, <1>2, <1>4, <1>6
  <2>2. \A d \in Queues : Before(InMerged(p)', InBuffer(p, d)')
    BY <1>2, <1>4, <1>6 DEF Before
  <2> QED BY <1>4, <1>7, <2>1, <2>2 DEF InOrder
<1>9. \A r \in Pods : InOrder(r)'
  BY <1>3, <1>8, SameSets DEF PInv, Ordered
<1>10. \A r \in Pods : r \in up' => (Pending(r)' \cup InLoop(r)') \subseteq unacked'[r]
  BY <1>1, <1>3, <1>4, <1>5, SameSets DEF PInv, Known
<1>11. \A r \in Pods : Pending(r) \cup handled \subseteq Pending(r)' \cup handled'
                       /\ Pending(r)' \subseteq Pending(r)
  BY <1>1, <1>3, <1>5, SameSets
<1>12. \A r \in Pods : \A k \in Pending(r)', n \in Messages :
         n[1] = k[1] /\ n[2] < k[2] => n \in Pending(r)' \cup handled'
  BY <1>11 DEF PInv, NoGap
<1>13. Turns'
  BY <1>1 DEF PInv, Turns
<1>14. Kept'
  <2>1. \A r \in Pods : InLoop(r)' \subseteq handled'
    BY <1>1, <1>3, <1>4, SameSets DEF PInv, Kept
  <2> QED BY <1>1, <1>11, <2>1 DEF PInv, Kept
<1>15. FirstHandledInOrder'
  <2>1. ASSUME NEW n \in Messages, n[1] = m[1], n[2] < m[2] PROVE n \in handled
    <3>1. m \in Pending(p)
      BY <1>5
    <3>2. n \in Pending(p) \cup handled
      BY <1>2, <2>1, <3>1 DEF PInv, NoGap
    <3>3. n \notin Pending(p)
      <4>1. n # m
        BY <1>2, <2>1, MessageType
      <4>2. n \notin Pending(p)'
        <5>1. n[2] \in Nat /\ m[2] \in Nat
          BY <1>2, MessageType
        <5>2. n \in Pending(p)' => m[2] < n[2]
          BY <1>7, <2>1 DEF Before
        <5> QED BY <2>1, <5>1, <5>2
      <4> QED BY <1>5, <4>1, <4>2
    <3> QED BY <3>2, <3>3
  <2> QED BY <1>1, <2>1 DEF PInv, FirstHandledInOrder
<1> QED BY <1>9, <1>10, <1>12, <1>13, <1>14, <1>15, Assemble

\* A delivery is settled: only the loop held it, for what is pending comes after it.
LEMMA SettleStep == ASSUME PInv, TInv', NEW p \in Pods, Ack(p) \/ Nack(p) PROVE PInv'
<1>0. /\ TInv /\ loop \in [Pods -> LoopType] /\ unacked \in [Pods -> SUBSET Messages]
      /\ up \subseteq Pods
  BY DEF PInv, TInv, TypeOK, Shape, LoopType
<1> DEFINE m == loop[p].msg
<1>1. loop[p].pc \in {"ack", "nack"} /\ UNCHANGED <<ready, active, up, buffer, merged, handled>>
  BY DEF Ack, Nack, Settle, inputs
<1>2. CASE p \notin up
  <2>1. PICK f \in {"ackFailed", "nackFailed"} :
          loop' = [loop EXCEPT ![p].pc = f] /\ UNCHANGED <<unacked, settled>>
    BY <1>2 DEF Ack, Nack, Settle
  <2>2. loop'[p].pc = f /\ \A r \in Pods \ {p} : loop'[r] = loop[r]
    BY <1>0, <2>1 DEF LoopType
  <2>3. \A r \in Pods : InLoop(r)' \subseteq InLoop(r)
    BY <2>2 DEF InLoop
  <2> QED BY <1>1, <2>1, <2>3, StillPInv
<1>3. CASE p \in up
  <2>1. /\ unacked' = [unacked EXCEPT ![p] = @ \ {m}]
        /\ settled' = settled \cup (unacked[p] \cap {m})
        /\ loop' = [loop EXCEPT ![p] = At("receive")]
    BY <1>3 DEF Ack, Nack, Settle
  <2>2. InLoop(p) = {m}
    BY <1>1 DEF InLoop
  <2> HIDE DEF m
  <2>3. \A r \in Pods \ {p} : Same(r) /\ unacked'[r] = unacked[r]
    BY <1>0, <1>1, <2>1 DEF Same
  <2>4. /\ unacked'[p] = unacked[p] \ {m} /\ buffer'[p] = buffer[p] /\ merged'[p] = merged[p]
        /\ loop'[p].pc = "receive"
    BY <1>0, <1>1, <2>1 DEF At
  <2>5. /\ Pending(p)' = Pending(p) /\ InMerged(p)' = InMerged(p) /\ InLoop(p)' = {}
        /\ \A q \in Queues : InBuffer(p, q)' = InBuffer(p, q)
    BY <2>4 DEF Pending, InMerged, InBuffer, InLoop
  <2>6. m \notin Pending(p)
    <3>1. Before({m}, Pending(p)) /\ Pending(p) \subseteq Messages
      BY <1>0, <2>2, Held DEF PInv, Ordered, InOrder
    <3>2. m \in Pending(p) => m[2] < m[2] /\ m[2] \in Nat
      BY <3>1, MessageType DEF Before
    <3> QED BY <3>2
  <2>7. InOrder(p)'
    BY <2>4, <2>5 DEF PInv, Ordered, InOrder, Before
  <2>8. \A r \in Pods : InOrder(r)'
    BY <2>3, <2>7, SameSets DEF PInv, Ordered
  <2>9. \A r \in Pods : r \in up' => (Pending(r)' \cup InLoop(r)') \subseteq unacked'[r]
    BY <1>1, <2>3, <2>4, <2>5, <2>6, SameSets DEF PInv, Known
  <2>10. \A r \in Pods : Pending(r)' = Pending(r) /\ InLoop(r)' \subseteq InLoop(r)
    BY <2>3, <2>5, SameSets
  <2>11. \A r \in Pods : \A k \in Pending(r)', n \in Messages :
           n[1] = k[1] /\ n[2] < k[2] => n \in Pending(r)' \cup handled'
    BY <1>1, <2>10 DEF PInv, NoGap
  <2>12. \A r \in Pods : unacked'[r] \subseteq unacked[r]
    BY <2>3, <2>4
  <2>13. Turns'
    BY <1>1, <2>12 DEF PInv, Turns, Before
  <2>14. Kept'
    <3>1. m \in handled
      BY <2>2 DEF PInv, Kept
    <3>2. settled' \subseteq handled' /\ settled \subseteq settled'
      BY <1>1, <2>1, <3>1 DEF PInv, Kept
    <3>3. ASSUME NEW n \in Messages
          PROVE  n \in ready' \/ n \in settled' \/ \E r \in Pods : n \in unacked'[r]
      <4>1. n \in ready \/ n \in settled \/ \E r \in Pods : n \in unacked[r]
        BY DEF PInv, Kept
      <4>2. ASSUME NEW r \in Pods, n \in unacked[r] PROVE n \in unacked'[r] \/ n \in settled'
        BY <2>1, <2>3, <2>4, <4>2
      <4> QED BY <1>1, <3>2, <4>1, <4>2
    <3> QED BY <1>1, <2>10, <2>12, <3>2, <3>3 DEF PInv, Kept
  <2>15. FirstHandledInOrder'
    BY <1>1 DEF PInv, FirstHandledInOrder
  <2> QED BY <2>8, <2>9, <2>11, <2>13, <2>14, <2>15, Assemble
<1> QED BY <1>2, <1>3

\* A channel is closed: what it had goes back to the queues, all of it older than what was
\* left there, and nothing of those queues is with another pod.
LEMMA CloseStep ==
  ASSUME PInv, TInv', NEW p \in Pods, ChannelClosed(p), handled' = handled,
         \A r \in Pods \ {p} : Same(r),
         InLoop(p)' \subseteq InLoop(p), InOrder(p)',
         \A m \in Pending(p)', n \in Messages :
           n[1] = m[1] /\ n[2] < m[2] => n \in Pending(p)' \cup handled'
  PROVE  PInv'
<1>0. /\ TInv /\ unacked \in [Pods -> SUBSET Messages] /\ up \subseteq Pods
      /\ active \in [Queues -> up \cup {Nobody}]
  BY DEF PInv, TInv, TypeOK, Shape
<1>1. /\ ready' = ready \cup unacked[p] /\ unacked' = [unacked EXCEPT ![p] = {}]
      /\ active' = [q \in Queues |-> IF active[q] = p THEN Nobody ELSE active[q]]
      /\ up' = up \ {p} /\ settled' = settled
  BY DEF ChannelClosed
<1>2. unacked'[p] = {} /\ \A r \in Pods \ {p} : unacked'[r] = unacked[r]
  BY <1>0, <1>1
<1>3. Turns'
  <2>1. ASSUME NEW r \in Pods, NEW m \in unacked'[r] PROVE active'[m[1]] = r
    <3>1. r # p /\ m \in unacked[r]
      BY <1>2, <2>1
    <3>2. m \in Messages /\ active[m[1]] = r
      BY <1>0, <3>1 DEF PInv, Turns
    <3> QED BY <1>1, <3>1, <3>2, MessageType
  <2>2. ASSUME NEW r \in Pods, NEW m \in unacked'[r], NEW n \in ready', m[1] = n[1]
        PROVE  m[2] < n[2]
    <3>1. r # p /\ m \in unacked[r]
      BY <1>2, <2>2
    <3>2. active[m[1]] = r /\ Before(unacked[r], ready)
      BY <3>1 DEF PInv, Turns
    <3>3. n \notin unacked[p]
      BY <2>2, <3>1, <3>2 DEF PInv, Turns
    <3> QED BY <1>1, <2>2, <3>1, <3>2, <3>3 DEF Before
  <2> QED BY <2>1, <2>2 DEF Turns, Before
<1>4. \A r \in Pods : InOrder(r)'
  BY SameSets DEF PInv, Ordered
<1>5. \A r \in Pods : r \in up' => (Pending(r)' \cup InLoop(r)') \subseteq unacked'[r]
  BY <1>1, <1>2, SameSets DEF PInv, Known
<1>6. \A r \in Pods : \A m \in Pending(r)', n \in Messages :
        n[1] = m[1] /\ n[2] < m[2] => n \in Pending(r)' \cup handled'
  <2> SUFFICES ASSUME NEW r \in Pods, r # p, NEW m \in Pending(r)', NEW n \in Messages,
                      n[1] = m[1], n[2] < m[2]
               PROVE  n \in Pending(r)' \cup handled'
    OBVIOUS
  <2>1. Pending(r)' = Pending(r)
    BY SameSets
  <2> QED BY <2>1 DEF PInv, NoGap
<1>7. Kept'
  <2>1. ASSUME NEW n \in Messages
        PROVE  n \in ready' \/ n \in settled' \/ \E r \in Pods : n \in unacked'[r]
    BY <1>1, <1>2 DEF PInv, Kept
  <2>2. \A r \in Pods : InLoop(r)' \subseteq handled' /\ unacked'[r] \subseteq Pending(r)' \cup handled'
    BY <1>2, SameSets DEF PInv, Kept
  <2> QED BY <1>1, <2>1, <2>2 DEF PInv, Kept
<1>8. FirstHandledInOrder'
  BY DEF PInv, FirstHandledInOrder
<1> QED BY <1>3, <1>4, <1>5, <1>6, <1>7, <1>8, Assemble

LEMMA WipeStep == ASSUME PInv, TInv', NEW p \in Pods, Wiped(p) PROVE PInv'
<1>0. /\ buffer \in [Pods -> [Queues -> Seq(Messages)]] /\ merged \in [Pods -> Seq(Messages)]
      /\ loop \in [Pods -> LoopType]
  BY DEF PInv, TInv, TypeOK, Shape, LoopType
<1>1. /\ buffer' = [buffer EXCEPT ![p] = Empty] /\ merged' = [merged EXCEPT ![p] = <<>>]
      /\ loop' = [loop EXCEPT ![p] = At("dial")] \/ loop' = [loop EXCEPT ![p] = At("done")]
      /\ handled' = handled /\ ChannelClosed(p)
  BY DEF Wiped
<1>2. \A r \in Pods \ {p} : Same(r)
  BY <1>0, <1>1 DEF Same
<1>3. buffer'[p] = Empty /\ merged'[p] = <<>> /\ loop'[p].pc \in {"dial", "done"}
  BY <1>0, <1>1 DEF At
<1>4. Elems(<<>>) = {} /\ Sorted(<<>>) /\ \A q \in Queues : Empty[q] = <<>>
  BY DEF Elems, Empty, Sorted
<1>5. Pending(p)' = {} /\ InMerged(p)' = {} /\ InLoop(p)' = {}
  BY <1>3, <1>4 DEF Pending, InMerged, InBuffer, InLoop
<1>6. InOrder(p)'
  BY <1>3, <1>4, <1>5 DEF InOrder, Before
<1> QED BY <1>1, <1>2, <1>5, <1>6, CloseStep

\* The buffers keep a beginning, so what is gone comes after all that is left.
LEMMA LoseStep == ASSUME PInv, TInv', NEW p \in Pods, LoseChannel(p) PROVE PInv'
<1>0. /\ TInv /\ buffer \in [Pods -> [Queues -> Seq(Messages)]] /\ Prefetch \in Nat
  BY CapsAssumption DEF PInv, TInv, TypeOK, Shape
<1>1. PICK kept \in [Queues -> 0 .. Prefetch] :
        buffer' = [buffer EXCEPT ![p] =
          [q \in Queues |-> SubSeq(@[q], 1, Min({kept[q], Len(@[q])}))]]
  BY DEF LoseChannel
<1>2. UNCHANGED <<merged, loop, handled>> /\ ChannelClosed(p)
  BY DEF LoseChannel
<1>3. \A r \in Pods \ {p} : Same(r)
  BY <1>0, <1>1, <1>2 DEF Same
<1>4. ASSUME NEW q \in Queues
      PROVE  /\ InBuffer(p, q)' \subseteq InBuffer(p, q)
             /\ Sorted(buffer[p][q]) =>
                  /\ Sorted(buffer'[p][q])
                  /\ \A m \in InBuffer(p, q)', n \in InBuffer(p, q) :
                       m[1] = n[1] /\ n[2] <= m[2] => n \in InBuffer(p, q)'
  <2> DEFINE k == Min({kept[q], Len(buffer[p][q])})
  <2>1. buffer[p][q] \in Seq(Messages) /\ kept[q] \in Nat /\ Len(buffer[p][q]) \in Nat
    BY <1>0, LenProperties
  <2>2. k \in 0 .. Len(buffer[p][q])
    BY <2>1, LeastOfTwo
  <2>3. buffer'[p][q] = SubSeq(buffer[p][q], 1, k)
    BY <1>0, <1>1
  <2> HIDE DEF k
  <2>4. /\ Elems(SubSeq(buffer[p][q], 1, k)) \subseteq Elems(buffer[p][q])
        /\ Sorted(buffer[p][q]) =>
             /\ Sorted(SubSeq(buffer[p][q], 1, k))
             /\ \A m \in Elems(SubSeq(buffer[p][q], 1, k)), n \in Elems(buffer[p][q]) :
                  m[1] = n[1] /\ n[2] <= m[2] => n \in Elems(SubSeq(buffer[p][q], 1, k))
    BY <2>1, <2>2, Cut
  <2> QED BY <2>3, <2>4 DEF InBuffer
<1>5. InMerged(p)' = InMerged(p) /\ InLoop(p)' = InLoop(p) /\ merged'[p] = merged[p]
  BY <1>2 DEF InMerged, InLoop
<1>6. Pending(p)' \subseteq Pending(p)
  BY <1>4, <1>5 DEF Pending
<1>7. /\ Before(InLoop(p), Pending(p)) /\ Sorted(merged[p])
      /\ \A q \in Queues : Sorted(buffer[p][q]) /\ Before(InMerged(p), InBuffer(p, q))
  BY DEF PInv, Ordered, InOrder
<1>8. InOrder(p)'
  <2>1. Before(InLoop(p)', Pending(p)')
    BY <1>5, <1>6, <1>7 DEF Before
  <2>2. \A q \in Queues : Sorted(buffer'[p][q]) /\ Before(InMerged(p)', InBuffer(p, q)')
    BY <1>4, <1>5, <1>7 DEF Before
  <2> QED BY <1>5, <1>7, <2>1, <2>2 DEF InOrder
<1>9. ASSUME NEW m \in Pending(p)', NEW n \in Messages, n[1] = m[1], n[2] < m[2]
      PROVE  n \in Pending(p)' \cup handled'
  <2>1. m \in Pending(p) /\ m \in Messages
    BY <1>0, <1>6, <1>9, Held
  <2>2. n \in Pending(p) \cup handled
    BY <1>9, <2>1 DEF PInv, NoGap
  <2>3. CASE n \in InMerged(p)
    BY <1>5, <2>3 DEF Pending
  <2>4. CASE n \notin InMerged(p) /\ n \in Pending(p)
    <3>1. n[1] \in Queues /\ n \in InBuffer(p, n[1]) /\ n[2] \in Nat /\ m[2] \in Nat
      BY <1>0, <2>1, <2>4, Held, MessageType
    <3>2. m \notin InMerged(p)
      <4>1. m \in InMerged(p) => m[2] < n[2]
        BY <1>7, <1>9, <3>1 DEF Before
      <4> QED BY <1>9, <3>1, <4>1
    <3>3. m \in InBuffer(p, n[1])'
      <4>1. PICK q \in Queues : m \in InBuffer(p, q)'
        BY <1>5, <1>9, <3>2 DEF Pending
      <4>2. m[1] = q
        BY <1>0, <1>4, <4>1, Held
      <4> QED BY <1>9, <4>1, <4>2
    <3>4. n \in InBuffer(p, n[1])'
      BY <1>4, <1>7, <1>9, <3>1, <3>3
    <3> QED BY <3>1, <3>4 DEF Pending
  <2> QED BY <1>2, <2>2, <2>3, <2>4
<1> QED BY <1>2, <1>3, <1>5, <1>8, <1>9, CloseStep

LEMMA InitPInv == Init => PInv
<1> SUFFICES ASSUME Init PROVE PInv
  OBVIOUS
<1>1. TInv
  BY InitType
<1>2. \A p \in Pods : buffer[p] = Empty /\ merged[p] = <<>> /\ loop[p].pc = "dial" /\ unacked[p] = {}
  BY DEF Init, At
<1>3. Elems(<<>>) = {} /\ Sorted(<<>>) /\ \A q \in Queues : Empty[q] = <<>>
  BY DEF Elems, Empty, Sorted
<1>4. \A p \in Pods : Pending(p) = {} /\ InMerged(p) = {} /\ InLoop(p) = {}
  BY <1>2, <1>3 DEF Pending, InMerged, InBuffer, InLoop
<1>5. Turns /\ Known /\ NoGap
  BY <1>1, <1>2, <1>4 DEF Turns, Known, NoGap, Before, TInv, TypeOK
<1>6. Ordered
  BY <1>2, <1>3, <1>4 DEF Ordered, InOrder, Before
<1>7. Kept /\ FirstHandledInOrder
  BY <1>2, <1>4 DEF Init, Kept, FirstHandledInOrder
<1> QED BY <1>1, <1>5, <1>6, <1>7 DEF PInv

LEMMA NextPInv == ASSUME PInv, Next PROVE PInv'
<1>1. TInv'
  BY NextType DEF PInv
<1> QED BY <1>1, Steps, ActivateStep, DeliverStep, ForwardStep, LoseStep, RouteStep, SettleStep,
  CalmStep, WipesWipe, WipeStep

LEMMA StutterPInv == ASSUME PInv, UNCHANGED vars PROVE PInv'
<1>1. TInv'
  BY StutterType DEF PInv
<1>2. UNCHANGED <<ready, active, unacked, settled, up, buffer, merged, loop, handled>>
  BY DEF vars, broker, inputs
<1>3. \A p \in Pods : InLoop(p)' \subseteq InLoop(p)
  BY <1>2 DEF InLoop
<1> QED BY <1>1, <1>2, <1>3, StillPInv

LEMMA PipelineInvariant == Spec => []PInv
<1>1. PInv /\ [Next]_vars => PInv'
  BY NextPInv, StutterPInv
<1> QED BY <1>1, InitPInv, PTL DEF Spec

\* An update is given to a router for the first time after every earlier one of its queue,
\* whatever channels, pods and buffered deliveries are lost on the way.
THEOREM InOrderAtFirst == Spec => []FirstHandledInOrder
<1>1. PInv => FirstHandledInOrder
  BY DEF PInv
<1> QED BY <1>1, PipelineInvariant, PTL
===============================================================================
