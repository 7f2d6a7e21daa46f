SPECIFICATION FairShutdownSpecWithRedis
CONSTANTS
  Sessions = {s1, s2}
  Edits = {e1}
  Chains = {c1, c2}
  MaxSaveRetries = 1
  None = None
  Sockets = {w1}
  HydrateCanFail = FALSE
INVARIANTS
  FlushSaves
PROPERTIES
  ShutdownEnds
