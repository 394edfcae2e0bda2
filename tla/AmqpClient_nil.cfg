SPECIFICATION Spec
CONSTANTS
  consumer = consumer
  collector = collector
  router = router
  Goroutines = {consumer, collector, router}
  Nil = Nil
  MaxConns = 3
  MaxFaults = 3
INVARIANT
  ChannelHasConnection
CHECK_DEADLOCK FALSE
