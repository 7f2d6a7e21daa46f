SPECIFICATION FairServerSpec
CONSTANTS
  Sessions = {s1, s2}
  Edits = {e1}
  Chains = {c1}
  MaxSaveRetries = 1
  None = None
  Sockets = {w1, w2}
  HydrateCanFail = TRUE
INVARIANTS
  MembershipAgrees
  IdleTimerMeansEmpty
  RegisteredIsUsable
PROPERTIES
  PersistSpec
  BusyEvictionIsForeign
  GhostsReaped
  AbandonedRoomEvicted
