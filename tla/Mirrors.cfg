SPECIFICATION Spec
CONSTANTS
  ann = ann
  bob = bob
  w1 = w1
  w2 = w2
  Users = {ann, bob}
  Workers = {w1, w2}
  Routes <- OneWorkerEach
  FreeLimit = 1
  MaxUpdates = 9
  MaxFaults = 1
INVARIANTS
  TypeOK
  FreeLimitKept
  OneMirrorPerRequest
  OwnerIsMember
\* The number of updates is bounded, so every behaviour ends.
CHECK_DEADLOCK FALSE
