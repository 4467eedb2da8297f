SPECIFICATION Spec
CONSTANTS
  ann = ann
  bob = bob
  team = team
  a1 = a1
  b1 = b1
  b2 = b2
  NoSocket = NoSocket
  Users <- TwoUsers
  Groups <- OneGroup
  Members <- Everyone
  Sockets <- ThreeSockets
  Owner <- AnnAndBob
  LoginStates <- AnnHides
  MaxTime = 2
  MaxMessages = 2
  MaxChanges = 1
  MaxPackets = 1
  MaxRestarts = 1
SYMMETRY BobsSockets
CHECK_DEADLOCK FALSE
INVARIANTS
  TypeOK
  OfflineMessagesWait
  OnceInOrder
