CONSTANTS
  Tasks = {"w1", "w2"}
  Addresses = {"a", "b", "d"}
  Labels = {"l1", "l2"}
  Clients = {"c1"}
  primary <- MCPrimary
  address_set <- MCAddressSet
  kind <- MCKind
  StopNow = FALSE
  ProcessorStops = {}
  MailboxSize = 1
  None = None
SPECIFICATION Spec
INVARIANT SafeShutdown
PROPERTY StopsInTurn
CHECK_DEADLOCK FALSE
