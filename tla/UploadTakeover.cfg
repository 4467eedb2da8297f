SPECIFICATION FairSpec
CONSTANTS
  c = c
  a1 = a1
  a2 = a2
  s1 = s1
  s2 = s2
  s3 = s3
  f1 = f1
  f2 = f2
  NoSocket = NoSocket
  Client = c
  Admins <- TwoAdmins
  Sockets <- TwoSockets
  Owner <- OneEach
  UDTSockets <- TwoSockets
  Files <- TwoFiles
  NumPieces <- TwoPieces
  Uploads <- UpFirst
  Downloads <- Nothing
  ClientFiles <- SecondFile
  PiecesInOneRequest = 1
  MaxAsks = 2
  MaxDamaged = 0
  MaxErrors = 0
CHECK_DEADLOCK FALSE
PROPERTY
  UploadSurvivesTakeover
