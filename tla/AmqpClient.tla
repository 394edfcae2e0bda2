------------------------------ MODULE AmqpClient ------------------------------
(***************************************************************************)
(* The holder of the RabbitMQ connection (infrastructure/rabbitmq): every  *)
(* goroutine that wants a channel calls Client.Channel, which dials when   *)
(* the connection is gone and forgets the connection when opening a channel*)
(* on it fails.  The mutex is released between connect and the second look *)
(* at c.conn, and while the channel is opened.                             *)
(***************************************************************************)
EXTENDS Integers, FiniteSets

CONSTANTS
  Goroutines, \* the callers: consumer loop, metrics collector, routing goroutines
  Nil,        \* no connection; no holder of the mutex
  MaxConns,   \* bound: connections dialled, numbered from 1
  MaxFaults   \* bound: connections lost, dials refused, channels refused

ASSUME ConnsAssumption == MaxConns \in Nat \ {0}
ASSUME FaultsAssumption == MaxFaults \in Nat
ASSUME NilAssumption == Nil \notin Goroutines /\ Nil \notin 1 .. MaxConns

Conns == 1 .. MaxConns

VARIABLES
  conn,   \* Client.conn
  open,   \* connections that are not closed
  dialed, \* connections dialled so far
  mutex,  \* who holds Client.mu
  pc,     \* where each goroutine is in Channel
  got,    \* the connection Conn returned to it
  faults

vars == <<conn, open, dialed, mutex, pc, got, faults>>

\* GetClient has dialled once (sync.Once) before any other goroutine exists.
Init ==
  /\ conn = 1
  /\ open = {1}
  /\ dialed = 1
  /\ mutex = Nil
  /\ pc = [g \in Goroutines |-> "idle"]
  /\ got = [g \in Goroutines |-> Nil]
  /\ faults = 0

Usable(c) == c # Nil /\ c \in open

Goto(g, from, to) == pc[g] = from /\ pc' = [pc EXCEPT ![g] = to]

-----------------------------------------------------------------------------
Call(g) ==
  /\ Goto(g, "idle", "connect")
  /\ UNCHANGED <<conn, open, dialed, mutex, got, faults>>

\* connect: the mutex is held while the connection is looked at and dialled.
Lock(g) ==
  /\ Goto(g, "connect", "locked")
  /\ mutex = Nil
  /\ mutex' = g
  /\ UNCHANGED <<conn, open, dialed, got, faults>>

Connected(g) ==
  /\ Goto(g, "locked", "read")
  /\ Usable(conn)
  /\ mutex' = Nil
  /\ UNCHANGED <<conn, open, dialed, got, faults>>

\* Variant of Broken: the mutex is not held while the network is waited for.
BrokenUnlocked(g) ==
  /\ Goto(g, "locked", "dial")
  /\ ~Usable(conn)
  /\ mutex' = Nil
  /\ UNCHANGED <<conn, open, dialed, got, faults>>

Broken(g) ==
  /\ Goto(g, "locked", "dial")
  /\ ~Usable(conn)
  /\ UNCHANGED <<conn, open, dialed, mutex, got, faults>>

\* amqp.Dial returns a connection, which is a local variable as yet.
Dial(g) ==
  /\ Goto(g, "dial", "assign")
  /\ dialed < MaxConns
  /\ dialed' = dialed + 1
  /\ open' = open \cup {dialed'}
  /\ got' = [got EXCEPT ![g] = dialed']
  /\ UNCHANGED <<conn, mutex, faults>>

\* Variant of DialFails: the early return forgets the mutex.
DialFailsLocked(g) ==
  /\ Goto(g, "dial", "idle")
  /\ faults < MaxFaults \/ dialed = MaxConns
  /\ faults' = IF dialed = MaxConns THEN faults ELSE faults + 1
  /\ UNCHANGED <<conn, open, dialed, mutex, got>>

\* The broker cannot be reached, or every connection of the model is used up.
DialFails(g) ==
  /\ Goto(g, "dial", "idle")
  /\ faults < MaxFaults \/ dialed = MaxConns
  /\ mutex' = Nil
  /\ faults' = IF dialed = MaxConns THEN faults ELSE faults + 1
  /\ UNCHANGED <<conn, open, dialed, got>>

\* connect returns with the new connection in c.conn.
Assign(g) ==
  /\ Goto(g, "assign", "read")
  /\ conn' = got[g]
  /\ got' = [got EXCEPT ![g] = Nil]
  /\ mutex' = Nil
  /\ UNCHANGED <<open, dialed, faults>>

\* Conn takes the mutex again to return c.conn, whatever it is by now.
Read(g) ==
  /\ Goto(g, "read", "open")
  /\ mutex = Nil
  /\ got' = [got EXCEPT ![g] = conn]
  /\ UNCHANGED <<conn, open, dialed, mutex, faults>>

\* conn.Channel(), outside the mutex.
OpenChannel(g) ==
  /\ Goto(g, "open", "idle")
  /\ Usable(got[g])
  /\ got' = [got EXCEPT ![g] = Nil]
  /\ UNCHANGED <<conn, open, dialed, mutex, faults>>

\* It fails on a closed connection, and may fail on an open one.
ChannelFails(g) ==
  /\ Goto(g, "open", "forget")
  /\ got[g] # Nil
  /\ \/ got[g] \notin open /\ faults' = faults
     \/ got[g] \in open /\ faults < MaxFaults /\ faults' = faults + 1
  /\ UNCHANGED <<conn, open, dialed, mutex, got>>

\* conn.Channel() on a nil *amqp.Connection: the goroutine panics, and with it
\* the process.
NilPanic(g) ==
  /\ Goto(g, "open", "panicked")
  /\ got[g] = Nil
  /\ UNCHANGED <<conn, open, dialed, mutex, got, faults>>

\* Variant of Forget: the comparison of line 65 is dropped.
ForgetAny(g) ==
  /\ Goto(g, "forget", "idle")
  /\ mutex = Nil
  /\ conn' = Nil
  /\ got' = [got EXCEPT ![g] = Nil]
  /\ UNCHANGED <<open, dialed, mutex, faults>>

\* The failing connection is forgotten, unless another one has taken its place.
Forget(g) ==
  /\ Goto(g, "forget", "idle")
  /\ mutex = Nil
  /\ conn' = IF conn = got[g] THEN Nil ELSE conn
  /\ got' = [got EXCEPT ![g] = Nil]
  /\ UNCHANGED <<open, dialed, mutex, faults>>

\* The network or the broker closes a connection.
Lose ==
  /\ faults < MaxFaults
  /\ \E c \in open : open' = open \ {c}
  /\ faults' = faults + 1
  /\ UNCHANGED <<conn, dialed, mutex, pc, got>>

-----------------------------------------------------------------------------
Step(g) ==
  \/ Lock(g) \/ Connected(g) \/ Broken(g) \/ Dial(g) \/ DialFails(g) \/ Assign(g)
  \/ Read(g)
  \/ OpenChannel(g) \/ ChannelFails(g) \/ NilPanic(g) \/ Forget(g)

Running == \A g \in Goroutines : pc[g] # "panicked"

Next ==
  /\ Running
  /\ \/ \E g \in Goroutines : Call(g) \/ Step(g)
     \/ Lose

\* Goroutines are scheduled, and sync.Mutex hands itself to a waiter that has
\* starved (its starvation mode), so a waiter is not passed over for ever.
Fairness ==
  \A g \in Goroutines :
    /\ WF_vars(Running /\ Step(g))
    /\ SF_vars(Running /\ (Lock(g) \/ Read(g) \/ Forget(g)))

Spec == Init /\ [][Next]_vars /\ Fairness

-----------------------------------------------------------------------------
(* Properties.                                                             *)

PCs == {"idle", "connect", "locked", "dial", "assign", "read", "open", "forget", "panicked"}

\* Inside connect, between taking the mutex and returning.
Critical == {"locked", "dial", "assign"}

\* Every variable has its type, and a goroutine holds the mutex exactly while it
\* looks at the connection or dials.
TypeOK ==
  /\ conn \in Conns \cup {Nil}
  /\ open \subseteq 1 .. dialed
  /\ dialed \in Conns
  /\ mutex \in Goroutines \cup {Nil}
  /\ \A g \in Goroutines : mutex = g <=> pc[g] \in Critical
  /\ pc \in [Goroutines -> PCs]
  /\ got \in [Goroutines -> Conns \cup {Nil}]
  /\ faults \in 0 .. MaxFaults

\* However many goroutines find the connection dead at once, and however long the
\* dial takes, a working connection is never replaced by another one: what was
\* seen before the dial is still so at the assignment (client.go:35-43).
NoWorkingReplaced ==
  [][conn' # conn /\ conn' # Nil => ~Usable(conn)]_vars

\* Connections that are dialled and not assigned yet.
Fresh == {got[g] : g \in {h \in Goroutines : pc[h] = "assign"}}

\* A connection on which a channel was refused is dropped without being closed
\* (client.go:64-68), but connections do not pile up beyond that: whatever the
\* goroutines do at the same time, each one left open beside the current one and
\* the one about to become it has cost a fault of its own.
LeaksAreFaults == Cardinality(open \ (Fresh \cup {conn})) <= faults

\* Every call of Channel returns, unless the process panics first.
CallsReturn ==
  \A g \in Goroutines : pc[g] # "idle" ~> (pc[g] = "idle" \/ ~Running)

\* "Channel opens a new channel on the current connection." (client.go:56):
\* there is a connection when it does.
ChannelHasConnection == \A g \in Goroutines : pc[g] = "open" => got[g] # Nil
=============================================================================
