SPECIFICATION FairStoreSpec
CONSTANTS
  n1 = n1
  n2 = n2
  s1 = s1
  s2 = s2
  s3 = s3
  Nodes <- MCNodes
  Sessions <- MCSessions
  Home <- MCHome
  MaxClients = 1
  MaxCommands = 2
  None = None
INVARIANTS
  RecordIsCurrent
PROPERTIES
  RecordsVanish
