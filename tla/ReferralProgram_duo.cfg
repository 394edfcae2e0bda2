SPECIFICATION Spec
\* The number of updates is bounded, so every behaviour ends.
CHECK_DEADLOCK FALSE
CONSTANTS
  ann = ann
  bob = bob
  cat = cat
  dan = dan
  w1 = w1
  w2 = w2
  Users = {ann, bob, cat}
  Workers = {w1, w2}
  Nobody = Nobody
  Routes <- TwoWorkerRoutes
  Threshold = 1
  NilIsPointer = FALSE
  AnySubset = TRUE
  RowsExpire = FALSE
  InitialPrefs = {"levels"}
  InitialAccount <- AnnIsMember
  FirstId = 2
  AccountIds <- SomeIds
  Updates <- TwoWorkerUpdates
  MaxUpdates = 5
  MaxFaults = 1
INVARIANTS
  OneReferralPerInvited
  InvitedIsMember
  NoDeadlock
PROPERTIES
  ImplementsLifecycle
  HandlersFinish
