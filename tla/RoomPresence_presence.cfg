SPECIFICATION FairPresenceSpec
CONSTANTS
  Clients = {c1, c2}
  Nodes = {n1}
  Sockets = {w1, w2}
  FaultKinds = {"connection", "message", "session"}
  MaxFaults = 1
  None = None
CHECK_DEADLOCK FALSE
INVARIANTS
  PresenceTypeOK
  NobodyAhead
  StatesAreOwned
PROPERTIES
  EverybodyListed
  TheLeftVanish
