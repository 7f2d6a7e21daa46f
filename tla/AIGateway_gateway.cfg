SPECIFICATION FairGatewaySpec
CONSTANTS
  Requests = {r1, r2}
CHECK_DEADLOCK FALSE
INVARIANTS
  ReviewsOfRoomRun
PROPERTIES
  RequestsEnd
