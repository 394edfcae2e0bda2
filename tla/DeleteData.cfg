SPECIFICATION Spec
CONSTANTS
  ann = ann
  bob = bob
  w1 = w1
  w2 = w2
  Users = {ann, bob}
  Workers = {w1, w2}
  Nobody = Nobody
  Routes <- AnyRoute
  Updates <- AnnLeaves
  InitialAccount <- JustAnn
  FirstId = 2
  AccountIds <- Ids1to8
  MaxUpdates = 5
  MaxFaults = 1
INVARIANTS
  TypeOK
  MemberHasSettings
PROPERTIES
  ImplementsErasure
  HandlersFinish
\* The number of updates is bounded, so every behaviour ends.
CHECK_DEADLOCK FALSE
