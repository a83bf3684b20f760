CONSTANTS
  Admin = admin
  Ids = {admin, i, j}
  None = None
  Cap = 1
  Ttl = 1
  MaxTime = 2
  MaxRequests = 4
  MaxCodes = 2
SPECIFICATION Spec
INVARIANTS
  RootedInEnrollers
  OneTime
CHECK_DEADLOCK FALSE
