SPECIFICATION FairPresenceSpec
CONSTANTS
  Clients = {c1}
  Nodes = {n1, n2}
  Sockets = {w1, w2, w3}
  FaultKinds = {"connection"}
  MaxFaults = 2
  None = None
CHECK_DEADLOCK FALSE
PROPERTIES
  TheLeftVanish
