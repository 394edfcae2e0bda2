SPECIFICATION Spec
CONSTANTS
  ann = ann
  bob = bob
  eve = eve
  Users = {ann, bob}
  Chats = {eve}
  Exporters = {ann}
  MaxConns = 3
  MaxMessages = 1
  MaxEvents = 2
  MaxFaults = 1
INVARIANTS
  TypeOK
  FoundAgain
  StatusIsTrue
  CountsOwnMessages
PROPERTIES
  PreviewIsHonoured
\* Connections, messages and waiting updates are bounded.
CHECK_DEADLOCK FALSE
