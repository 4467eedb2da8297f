SPECIFICATION Spec
CONSTANTS
  ann = ann
  bob = bob
  p1 = p1
  p2 = p2
  NoUser = NoUser
  NoSocket = NoSocket
  Users <- TwoUsers
  Places <- TwoPlaces
  UsersAt <- AnnEverywhere
  Contacts <- Friends
  LoginStates <- BobHides
  Passwords <- AnyPassword
  MaxConnections = 2
  MaxAttempts = 2
  MaxReturns = 1
  MaxPackets = 1
CHECK_DEADLOCK FALSE
INVARIANTS
  TypeOK
  OnlineIsWatched
  OneSession
  OneVerified
  PresenceTold
  
