CONSTANTS
  Tasks = {"w2", "p1", "x1"}
  Addresses = {"b", "d"}
  Labels = {"l1"}
  Clients = {}
  primary <- MCPrimary
  address_set <- MCAddressSet
  kind <- MCKind
  StopNow = TRUE
  ProcessorStops = {"b"}
  MailboxSize = 1
  None = None
SPECIFICATION Spec
INVARIANTS
  NoStaleRecords
  WaitsForTheLiving
CHECK_DEADLOCK FALSE
