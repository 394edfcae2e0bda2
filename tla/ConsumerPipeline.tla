--------------------------- MODULE ConsumerPipeline ---------------------------
(***************************************************************************)
(* From the shard queues to the router (application/init.go, main.go): each*)
(* pod consumes every shard queue through one channel, forwards the        *)
(* deliveries of its consumers into one Go channel, and a single loop takes*)
(* them from there, gives them to the router and settles them.  The queues *)
(* have a single active consumer.  Channels are lost, pods are killed or   *)
(* told to shut down, and come back.                                       *)
(*                                                                         *)
(* Every dial makes a merged and forwarders of its own, and a delivery is  *)
(* settled on the channel it came from.  One buffer and one merged per pod *)
(* stand for those of all its sessions: the loop dials again only when     *)
(* merged is closed and drained, that is when the forwarders are done, so  *)
(* at most one session has deliveries that may still be read (those of a   *)
(* dial that failed never are).                                            *)
(*                                                                         *)
(* The broker, the AMQP library's buffers, amqputil.RunConsumerLoop and    *)
(* router.HandleUpdate are external: they are modelled as the code uses    *)
(* them.                                                                   *)
(***************************************************************************)
EXTENDS Integers, FiniteSets, SequencesExt

CONSTANTS
  Pods,        \* replicas of the service
  Queues,      \* the shard queues, models of RequiredModels (64 in the code)
  Nobody,      \* a queue without an active consumer
  LastMessage, \* per queue, the number of updates published to it
  Prefetch,    \* Qos(50, 0, false): unsettled deliveries per consumer
  MergedCap,   \* capacity of merged (1000 in the code)
  ErrorsCap,   \* capacity of errors (1000 in the code)
  MaxFaults    \* bound: lost channels, errors, signals, killed pods

ASSUME NobodyAssumption == Nobody \notin Pods
ASSUME LastAssumption == LastMessage \in [Queues -> Nat]
ASSUME QueuesAssumption == Queues # {}
ASSUME CapsAssumption == {Prefetch, MergedCap, ErrorsCap} \subseteq Nat \ {0}
ASSUME FaultsAssumption == MaxFaults \in Nat

\* Message <<q, n>> is the n-th update published to q.
Messages == UNION {{q} \X (1 .. LastMessage[q]) : q \in Queues}

VARIABLES
  ready,   \* broker: messages waiting in their queue
  active,  \* broker: the pod whose consumer is the active one of each queue
  unacked, \* broker: delivered on the channel of each pod, not settled
  settled, \* broker: messages acknowledged or discarded
  up,      \* the pods whose channel is open
  consuming, \* the queues each pod has a consumer on, on that channel
  buffer,  \* deliveries of each consumer that its forwarder has not passed on
  merged,  \* the Go channel merged of each pod's session
  loop,    \* where the consumer loop of each pod is, and with what message
  errors,  \* messages in the Go channel errors of each pod
  logger,  \* the pods whose hanleError goroutine runs
  process, \* running, signalled (ctx is done) or exited
  handled, \* messages HandleUpdate was called with
  faults

broker == <<ready, active, unacked, settled, up, consuming>>
inputs == <<buffer, merged>>
vars == <<broker, inputs, loop, errors, logger, process, handled, faults>>

At(pc) == [pc |-> pc, msg |-> <<>>]
Empty == [q \in Queues |-> <<>>]

Init ==
  /\ ready = Messages
  /\ active = [q \in Queues |-> Nobody]
  /\ unacked = [p \in Pods |-> {}]
  /\ settled = {}
  /\ up = {}
  /\ consuming = [p \in Pods |-> {}]
  /\ buffer = [p \in Pods |-> Empty]
  /\ merged = [p \in Pods |-> <<>>]
  /\ loop = [p \in Pods |-> At("dial")]
  /\ errors = [p \in Pods |-> 0]
  /\ logger = Pods
  /\ process = [p \in Pods |-> "running"]
  /\ handled = {}
  /\ faults = 0

Fault == faults < MaxFaults /\ faults' = faults + 1

-----------------------------------------------------------------------------
(* The broker.                                                             *)

OfQueue(q, ms) == {m \in ms : m[1] = q}

Activate(q) ==
  /\ active[q] = Nobody
  /\ \E p \in up : q \in consuming[p] /\ active' = [active EXCEPT ![q] = p]
  /\ UNCHANGED <<ready, unacked, settled, up, consuming, inputs, loop, errors, logger,
                 process, handled, faults>>

\* The first ready message goes to the active consumer.
Deliver(q) ==
  /\ active[q] # Nobody
  /\ OfQueue(q, ready) # {}
  /\ Cardinality(OfQueue(q, unacked[active[q]])) < Prefetch
  /\ LET p == active[q]
         m == <<q, Min({n[2] : n \in OfQueue(q, ready)})>>
     IN /\ ready' = ready \ {m}
        /\ unacked' = [unacked EXCEPT ![p] = @ \cup {m}]
        /\ buffer' = [buffer EXCEPT ![p][q] = Append(@, m)]
  /\ UNCHANGED <<active, settled, up, consuming, merged, loop, errors, logger, process,
                 handled, faults>>

\* The channel of p is closed: what it has not settled is ready again, at its
\* old place in the queue.
ChannelClosed(p) ==
  /\ ready' = ready \cup unacked[p]
  /\ unacked' = [unacked EXCEPT ![p] = {}]
  /\ active' = [q \in Queues |-> IF active[q] = p THEN Nobody ELSE active[q]]
  /\ up' = up \ {p}
  /\ consuming' = [consuming EXCEPT ![p] = {}]
  /\ settled' = settled

\* The library closes the consumers; the first of the buffered deliveries may
\* still reach the forwarder, the rest is dropped.
LoseChannel(p) ==
  /\ p \in up
  /\ Fault
  /\ ChannelClosed(p)
  /\ \E kept \in [Queues -> 0 .. Prefetch] :
        buffer' = [buffer EXCEPT ![p] =
          [q \in Queues |-> SubSeq(@[q], 1, Min({kept[q], Len(@[q])}))]]
  /\ UNCHANGED <<merged, loop, errors, logger, process, handled>>

-----------------------------------------------------------------------------
(* The forwarders and the consumer loop of a pod.                          *)

\* Variant of Forward: a goroutine for every delivery.
ForwardAny(p, q) ==
  /\ process[p] # "exited"
  /\ Len(merged[p]) < MergedCap
  /\ \E i \in DOMAIN buffer[p][q] :
        /\ merged' = [merged EXCEPT ![p] = Append(@, buffer[p][q][i])]
        /\ buffer' = [buffer EXCEPT ![p][q] = RemoveAt(@, i)]
  /\ UNCHANGED <<broker, loop, errors, logger, process, handled, faults>>

\* for d := range c { merged <- d }, also when the channel is gone.
Forward(p, q) ==
  /\ process[p] # "exited"
  /\ buffer[p][q] # <<>>
  /\ Len(merged[p]) < MergedCap
  /\ merged' = [merged EXCEPT ![p] = Append(@, Head(buffer[p][q]))]
  /\ buffer' = [buffer EXCEPT ![p][q] = Tail(@)]
  /\ UNCHANGED <<broker, loop, errors, logger, process, handled, faults>>

\* initRabbitmqQueue opens a channel.  A connection or channel that cannot be had
\* is tried for again and changes nothing.
Dial(p) ==
  /\ loop[p].pc = "dial"
  /\ process[p] = "running"
  /\ up' = up \cup {p}
  /\ loop' = [loop EXCEPT ![p] = At("consume")]
  /\ UNCHANGED <<ready, active, unacked, settled, consuming, inputs, errors, logger,
                 process, handled, faults>>

\* A consumer on the next queue, in a fixed order, and its forwarder, which starts
\* at once.
Consume(p) ==
  /\ loop[p].pc = "consume"
  /\ p \in up
  /\ consuming' = [consuming EXCEPT ![p] = @ \cup {CHOOSE q \in Queues : q \notin @}]
  /\ loop' = IF consuming'[p] = Queues THEN [loop EXCEPT ![p] = At("receive")] ELSE loop
  /\ UNCHANGED <<ready, active, unacked, settled, up, inputs, errors, logger, process,
                 handled, faults>>

ConsumeError(p) ==
  /\ loop[p].pc = "consume"
  /\ IF p \in up THEN Fault ELSE faults' = faults
  /\ loop' = [loop EXCEPT ![p] = At("dial")]
  /\ UNCHANGED <<errors, logger, process, handled>>

\* Variant of ConsumeFails: the channel is not closed (init.go:73).
ConsumeFailsOpen(p) ==
  /\ ConsumeError(p)
  /\ buffer' = [buffer EXCEPT ![p] = Empty]
  /\ merged' = [merged EXCEPT ![p] = <<>>]
  /\ UNCHANGED broker

\* Consume fails for a queue: the channel is closed, and nobody will ever read the
\* merged of this dial nor what its forwarders hold (they may block for ever).
ConsumeFails(p) ==
  /\ ConsumeError(p)
  /\ ChannelClosed(p)
  /\ buffer' = [buffer EXCEPT ![p] = Empty]
  /\ merged' = [merged EXCEPT ![p] = <<>>]

Receive(p) ==
  /\ loop[p].pc = "receive"
  /\ merged[p] # <<>>
  /\ merged' = [merged EXCEPT ![p] = Tail(@)]
  /\ handled' = handled \cup {Head(merged[p])}

\* OnDelivery: the router takes the update.
Route(p) ==
  /\ Receive(p)
  /\ loop' = [loop EXCEPT ![p] = [pc |-> "ack", msg |-> Head(merged[p])]]
  /\ UNCHANGED <<broker, buffer, errors, logger, process, faults>>

\* Variant of RouteFails: only the error is reported.
RouteFailsUnsettled(p) ==
  /\ Receive(p)
  /\ Fault
  /\ loop' = [loop EXCEPT ![p] = [pc |-> "ackFailed", msg |-> Head(merged[p])]]
  /\ UNCHANGED <<broker, buffer, errors, logger, process>>

\* The router refuses it: the error is reported before the delivery is settled.
RouteFails(p) ==
  /\ Receive(p)
  /\ Fault
  /\ loop' = [loop EXCEPT ![p] = [pc |-> "routeFailed", msg |-> Head(merged[p])]]
  /\ UNCHANGED <<broker, buffer, errors, logger, process>>

\* A delivery is settled on the channel it came from; on a closed one the call
\* fails and the broker hears nothing.
Settle(p, failed) ==
  /\ IF p \in up
       THEN /\ unacked' = [unacked EXCEPT ![p] = @ \ {loop[p].msg}]
            /\ settled' = settled \cup (unacked[p] \cap {loop[p].msg})
            /\ loop' = [loop EXCEPT ![p] = At("receive")]
       ELSE /\ loop' = [loop EXCEPT ![p].pc = failed]
            /\ UNCHANGED <<unacked, settled>>
  /\ UNCHANGED <<ready, active, up, consuming, inputs, errors, logger, process, handled,
                 faults>>

Ack(p) == loop[p].pc = "ack" /\ Settle(p, "ackFailed")

\* Nack(false, false): no dead-letter exchange is declared, the update is gone.
Nack(p) == loop[p].pc = "nack" /\ Settle(p, "nackFailed")

\* errors <- ..., which blocks while the Go channel is full.
Report(p) ==
  /\ loop[p].pc \in {"routeFailed", "nackFailed", "ackFailed"}
  /\ errors[p] < ErrorsCap
  /\ errors' = [errors EXCEPT ![p] = @ + 1]
  /\ loop' = [loop EXCEPT ![p] =
       IF loop[p].pc = "routeFailed" THEN [@ EXCEPT !.pc = "nack"] ELSE At("receive")]
  /\ UNCHANGED <<broker, inputs, logger, process, handled, faults>>

\* merged is closed when every forwarder is done, and the loop has taken what was in
\* it: it dials again.
SessionEnds(p) ==
  /\ loop[p].pc = "receive"
  /\ p \notin up
  /\ buffer[p] = Empty
  /\ merged[p] = <<>>
  /\ loop' = [loop EXCEPT ![p] = At("dial")]
  /\ UNCHANGED <<broker, inputs, errors, logger, process, handled, faults>>

-----------------------------------------------------------------------------
(* The error log, and shutting down.                                       *)

\* hanleError takes an error.
Log(p) ==
  /\ p \in logger
  /\ errors[p] > 0
  /\ errors' = [errors EXCEPT ![p] = @ - 1]
  /\ UNCHANGED <<broker, inputs, loop, logger, process, handled, faults>>

\* A routing goroutine of the pod reports an error of its handler.
HandlerError(p) ==
  /\ process[p] # "exited"
  /\ errors[p] < ErrorsCap
  /\ Fault
  /\ errors' = [errors EXCEPT ![p] = @ + 1]
  /\ UNCHANGED <<broker, inputs, loop, logger, process, handled>>

\* SIGINT or SIGTERM: ctx is done.
Signal(p) ==
  /\ process[p] = "running"
  /\ Fault
  /\ process' = [process EXCEPT ![p] = "signalled"]
  /\ UNCHANGED <<broker, inputs, loop, errors, logger, handled>>

LoggerStops(p) ==
  /\ p \in logger
  /\ process[p] = "signalled"
  /\ logger' = logger \ {p}
  /\ UNCHANGED <<broker, inputs, loop, errors, process, handled, faults>>

\* The loop sees that ctx is done; Cleanup closes the session.
LoopStops(p) ==
  /\ loop[p].pc \in {"dial", "receive"}
  /\ process[p] = "signalled"
  /\ ChannelClosed(p)
  /\ buffer' = [buffer EXCEPT ![p] = Empty]
  /\ merged' = [merged EXCEPT ![p] = <<>>]
  /\ loop' = [loop EXCEPT ![p] = At("done")]
  /\ UNCHANGED <<errors, logger, process, handled, faults>>

\* The process is gone, with all it held.
Gone(p) ==
  /\ ChannelClosed(p)
  /\ buffer' = [buffer EXCEPT ![p] = Empty]
  /\ merged' = [merged EXCEPT ![p] = <<>>]
  /\ loop' = [loop EXCEPT ![p] = At("done")]
  /\ errors' = [errors EXCEPT ![p] = 0]
  /\ logger' = logger \ {p}
  /\ process' = [process EXCEPT ![p] = "exited"]
  /\ UNCHANGED handled

\* main: wg.Wait returns.
Exit(p) ==
  /\ process[p] = "signalled"
  /\ loop[p].pc = "done"
  /\ p \notin logger
  /\ Gone(p)
  /\ faults' = faults

\* Variant of Timeout: main only waits for the WaitGroup.
NoTimeout(p) ==
  /\ process[p] = "signalled"
  /\ loop[p].pc = "done"
  /\ p \notin logger
  /\ Gone(p)
  /\ faults' = faults

\* main: the 30 seconds are over first.
Timeout(p) ==
  /\ process[p] = "signalled"
  /\ Gone(p)
  /\ faults' = faults

Kill(p) == process[p] # "exited" /\ Gone(p) /\ Fault

\* The orchestrator starts the pod again.
Restart(p) ==
  /\ process[p] = "exited"
  /\ process' = [process EXCEPT ![p] = "running"]
  /\ loop' = [loop EXCEPT ![p] = At("dial")]
  /\ logger' = logger \cup {p}
  /\ UNCHANGED <<broker, inputs, errors, handled, faults>>

-----------------------------------------------------------------------------
Loop(p) ==
  \/ Dial(p) \/ Consume(p) \/ ConsumeFails(p) \/ Route(p) \/ RouteFails(p)
  \/ Ack(p) \/ Nack(p) \/ Report(p) \/ SessionEnds(p) \/ LoopStops(p)

Logger(p) == Log(p) \/ LoggerStops(p)
Main(p) == Exit(p) \/ Timeout(p)

Next ==
  \/ \E q \in Queues : Activate(q) \/ Deliver(q)
  \/ \E p \in Pods, q \in Queues : Forward(p, q)
  \/ \E p \in Pods :
       \/ LoseChannel(p) \/ Loop(p) \/ Logger(p) \/ HandlerError(p)
       \/ Signal(p) \/ Main(p) \/ Kill(p) \/ Restart(p)

\* The broker delivers, goroutines are scheduled, the timer fires, and a pod that
\* ended is started again.
Fairness ==
  /\ \A q \in Queues : WF_vars(Activate(q)) /\ WF_vars(Deliver(q))
  /\ \A p \in Pods :
       /\ \A q \in Queues : WF_vars(Forward(p, q))
       /\ WF_vars(Loop(p)) /\ WF_vars(Logger(p))
       /\ WF_vars(Main(p)) /\ WF_vars(Restart(p))

Spec == Init /\ [][Next]_vars /\ Fairness

-----------------------------------------------------------------------------
(* Properties.                                                             *)

LoopPCs == {"dial", "consume", "receive", "ack", "routeFailed", "nack", "nackFailed",
            "ackFailed", "done"}

\* Every variable has its type, every Go channel is within its capacity, and no
\* session is left open by a dial that failed or a loop that has gone (init.go:73,
\* 117-122).
TypeOK ==
  /\ ready \subseteq Messages /\ settled \subseteq Messages
  /\ handled \subseteq Messages
  /\ active \in [Queues -> up \cup {Nobody}]
  /\ up \subseteq {p \in Pods : loop[p].pc \notin {"dial", "done"}}
  /\ consuming \in [Pods -> SUBSET Queues]
  /\ \A p \in Pods \ up : consuming[p] = {}
  /\ logger \subseteq Pods
  /\ unacked \in [Pods -> SUBSET Messages]
  /\ \A p \in Pods :
       /\ \A q \in Queues : buffer[p][q] \in Seq(OfQueue(q, Messages))
       /\ merged[p] \in Seq(Messages) /\ Len(merged[p]) <= MergedCap
       /\ loop[p].pc \in LoopPCs
       /\ loop[p].msg \in Messages \cup {<<>>}
       /\ errors[p] \in 0 .. ErrorsCap
       /\ process[p] \in {"running", "signalled", "exited"}
  /\ faults \in 0 .. MaxFaults

\* Through lost channels and pods, nothing overtakes: before an update is given
\* to a router for the first time, every earlier one of its queue has been.
FirstHandledInOrder ==
  \A m \in handled, n \in Messages : n[1] = m[1] /\ n[2] < m[2] => n \in handled

\* No message is forgotten by the broker and by every pod: whatever is lost or
\* refused, each update is settled in the end, so its queue never stalls.
EverySettled == \A m \in Messages : <>(m \in settled)

\* A pod told to shut down ends, though its loop may wait for ever on a full
\* errors channel whose only reader, hanleError, has left (init.go:133, 155).
ExitsOnSignal == \A p \in Pods : process[p] = "signalled" ~> process[p] = "exited"

\* "keeping per-queue ordering" (required_models.go:61): no update reaches a
\* router after a later one of its queue.
HandledInOrder ==
  [][\A p \in Pods :
       loop[p].pc = "receive" /\ loop'[p].pc \in {"ack", "routeFailed"} =>
         \A m \in handled :
           m[1] = loop'[p].msg[1] => m[2] <= loop'[p].msg[2]]_vars
=============================================================================
