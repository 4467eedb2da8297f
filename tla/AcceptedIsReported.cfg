SPECIFICATION Spec
CONSTANTS
  ann = ann
  bob = bob
  Users <- TwoUsers
  AutoAccept <- OnlyBob
  MaxGroup = 2
  MaxRequests = 3
  MaxLogins = 3
CHECK_DEADLOCK FALSE
INVARIANTS
  AcceptedIsReported
