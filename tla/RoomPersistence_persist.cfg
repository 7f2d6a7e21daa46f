SPECIFICATION FairPersistSpec
CONSTANTS
  Sessions = {s1}
  Edits = {e1, e2}
  Chains = {c1, c2}
  MaxSaveRetries = 2
  None = None
INVARIANTS
  RetrySlotArmed
  DurableUnlessExposed
PROPERTIES
  DirtyStaysCovered
  SaveChainsEnd
  SavedOrLastAttempt
