SPECIFICATION Spec
CONSTANTS
  consumer = consumer
  collector = collector
  router = router
  Goroutines = {consumer, collector, router}
  Nil = Nil
  MaxConns = 3
  MaxFaults = 3
INVARIANTS
  TypeOK
  LeaksAreFaults
PROPERTIES
  NoWorkingReplaced
  CallsReturn
\* A panic ends the process.
CHECK_DEADLOCK FALSE
