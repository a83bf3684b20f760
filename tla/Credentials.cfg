CONSTANTS
  Ids = {i, j}
  Authority = Authority
  Foreign = Foreign
  None = None
  Life = 1
  MaxTime = 1
  MaxCreds = 2
SPECIFICATION Spec
INVARIANTS
  AccessVouched
  ClientServed
CHECK_DEADLOCK FALSE
