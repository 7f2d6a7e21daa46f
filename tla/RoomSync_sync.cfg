SPECIFICATION FairSyncSpec
CONSTANTS
  Browsers = {b1, b2}
  Sessions = {s1, s2}
  Edits = {e1}
  None = None
INVARIANTS
  SyncTypeOK
  ServerHasAll
  BrowserHasAllUnlessMissed
PROPERTIES
  SharedDocumentSpec
  EditsReachPeers
