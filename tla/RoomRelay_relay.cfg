SPECIFICATION RelaySpec
CONSTANTS
  n1 = n1
  n2 = n2
  s1 = s1
  s2 = s2
  s3 = s3
  Nodes <- MCNodes
  Sessions <- MCSessions
  Home <- MCHome
  Edits = {e1}
  MaxOutages = 1
  None = None
SYMMETRY MCSymmetry
CHECK_DEADLOCK FALSE
INVARIANTS
  AloneIsRelayed
  
  HearsUnlessSkipped
