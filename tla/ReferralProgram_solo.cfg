SPECIFICATION Spec
\* The number of updates is bounded, so every behaviour ends.
CHECK_DEADLOCK FALSE
CONSTANTS
  ann = ann
  bob = bob
  cat = cat
  dan = dan
  w1 = w1
  w2 = w2
  Users = {ann, bob, cat}
  Workers = {w1}
  Nobody = Nobody
  Routes <- OneWorkerRoutes
  Threshold = 2
  NilIsPointer = FALSE
  AnySubset = TRUE
  RowsExpire = TRUE
  InitialPrefs = {"levels", "absent"}
  InitialAccount <- AnnIsMember
  FirstId = 2
  AccountIds <- SomeIds
  Updates <- OneWorkerUpdates
  MaxUpdates = 8
  MaxFaults = 1
INVARIANTS
  TypeOK
  NothingOfTheDeleted
PROPERTIES
  ToldOnConnect
  UncountedOnDisconnect
