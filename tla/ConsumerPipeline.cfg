SPECIFICATION Spec
CONSTANTS
  pod1 = pod1
  pod2 = pod2
  q1 = q1
  q2 = q2
  Pods = {pod1, pod2}
  Queues = {q1, q2}
  Nobody = Nobody
  LastMessage <- TwoAndNone
  Prefetch = 2
  MergedCap = 1
  ErrorsCap = 1
  MaxFaults = 3
INVARIANTS
  TypeOK
  FirstHandledInOrder
PROPERTIES
  EverySettled
  ExitsOnSignal
\* When every update is settled the service just waits.
CHECK_DEADLOCK FALSE
