SPECIFICATION FairReviewSpec
CONSTANTS
  Requests = {r1, r2}
  MaxTokens = 1
  None = None
INVARIANTS
  ReviewTypeOK
  OnlyControllerRuns
  FlushLoopEnds
  OutcomeUnlessTorn
  HistoryIsGenuine
  MarkersMatchDrawer
PROPERTIES
  RequestsSettle
