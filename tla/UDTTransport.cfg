SPECIFICATION Spec
CONSTANTS
  s1 = s1
  s2 = s2
  Sockets <- OneSocket
  Parts = 3
  MaxUnits = 9
CHECK_DEADLOCK FALSE
INVARIANTS
  TypeOK
  BlocksInOrder
  LossIsLast
  NoUseAfterRelease
PROPERTIES
  CloseReturns
  LossIsSignalled
