SPECIFICATION Spec
\* The number of updates is bounded, so every behaviour ends.
CHECK_DEADLOCK FALSE
CONSTANTS
  ann = ann
  bob = bob
  cat = cat
  dan = dan
  w1 = w1
  w2 = w2
  Users = {ann, bob, cat, dan}
  Workers = {w1}
  Nobody = Nobody
  Routes <- OneWorkerRoutes
  Threshold = 2
  NilIsPointer = TRUE
  AnySubset = FALSE
  RowsExpire = FALSE
  InitialPrefs = {"levels"}
  InitialAccount <- AnnIsMember
  FirstId = 2
  AccountIds <- SomeIds
  Updates <- LevelUpdates
  MaxUpdates = 7
  MaxFaults = 0
PROPERTIES
  ToldOnDisconnect
