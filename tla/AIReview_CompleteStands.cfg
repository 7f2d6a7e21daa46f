SPECIFICATION ReviewSpec
CONSTANTS
  Requests = {r1}
  MaxTokens = 1
  None = None
PROPERTIES
  CompleteStands
