CONSTANTS
  Tasks = {"w1", "w2"}
  Addresses = {"a", "b", "d"}
  Labels = {}
  Clients = {"c1"}
  primary <- MCPrimary
  address_set <- MCAddressSet
  kind <- MCKind
  StopNow = FALSE
  ProcessorStops = {"b"}
  MailboxSize = 1
  None = None
SPECIFICATION RouterSpec
INVARIANTS
  MailboxesDrained
  AliasesHaveRecords
PROPERTIES StopReturns StoppedWorkerEnds
CHECK_DEADLOCK FALSE
