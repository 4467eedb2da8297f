SPECIFICATION FairSpec
CONSTANTS
  c = c
  a1 = a1
  a2 = a2
  s1 = s1
  s2 = s2
  s3 = s3
  f1 = f1
  f2 = f2
  NoSocket = NoSocket
  Client = c
  Admins <- OneAdmin
  Sockets <- OneSocket
  Owner <- OwnedByOne
  UDTSockets <- Nothing
  Files <- TwoFiles
  NumPieces <- SixPieces
  Uploads <- UpFirst
  Downloads <- TwoFiles
  ClientFiles <- SecondFile
  PiecesInOneRequest = 2
  MaxAsks = 1
  MaxDamaged = 1
  MaxErrors = 1
CHECK_DEADLOCK FALSE
INVARIANTS
  TypeOK
  WindowBounded

  
