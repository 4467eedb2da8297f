SPECIFICATION FairSpec
CONSTANTS
  c1 = c1
  v1 = v1
  s1 = s1
  s2 = s2
  NoClient = NoProgram
  NoSocket = NoSocket
  Clients <- OneClient
  Servers <- OneServer
  Sockets <- TwoSockets
  MaxRuns = 2
  MaxCalls = 2
  MaxCopies = 2
INVARIANTS
  TypeOK
  RecordsAreTrue
  ServedIsRecorded
PROPERTY
  FindsServer
