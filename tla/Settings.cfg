SPECIFICATION Spec
CONSTANTS
  ann = ann
  bob = bob
  w1 = w1
  w2 = w2
  Users = {ann, bob}
  Workers = {w1, w2}
  Routes <- OneOnAny
  Switches = {"deleted", "edited"}
  Bonuses = {"money", "levels"}
  MaxUpdates = 6
  MaxFaults = 1
INVARIANTS
  TypeOK
PROPERTIES
  BonusIsChosen
  PressTurnsOne
  ShownIsStored
\* The number of updates is bounded, so every behaviour ends.
CHECK_DEADLOCK FALSE
