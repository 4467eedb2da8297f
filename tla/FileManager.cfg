SPECIFICATION FairSpec
CONSTANTS
  f1 = f1
  p1 = p1
  NoFile = NoFile
  NoInfo = NoInfo
  Files <- OneFile
  Paths <- OnePath
  Targets <- AllTargets
  NumPieces <- ThreePieces
  PersistEvery = 2
  MaxReads = 1
  MaxWrites = 1
INVARIANTS
  TypeOK
  NoLostWakeup
  WriterKeepsItsFile
  BitmapIsTrue
  PublishedWhole
PROPERTIES
  SavedProgressKept
  StoreRefined
  WritesAreTaken
