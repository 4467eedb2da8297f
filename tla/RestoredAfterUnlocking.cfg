SPECIFICATION Spec
CONSTANTS
  ann = ann
  bob = bob
  p1 = p1
  p2 = p2
  NoUser = NoUser
  NoSocket = NoSocket
  Users <- TwoUsers
  Places <- TwoPlaces
  UsersAt <- AnnEverywhere
  Contacts <- Friends
  LoginStates <- AllOnline
  Passwords <- Right
  MaxConnections = 1
  MaxAttempts = 2
  MaxReturns = 0
  MaxPackets = 2
CHECK_DEADLOCK FALSE
INVARIANT RestoredAfterUnlocking
