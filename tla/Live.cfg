SPECIFICATION FairSpec
CONSTANTS
  Parts = {"NodeApiEnds", "OrchestratorReturns", "NodeProcessTerm", "SecureChannelV2Ends", "HandshakeOpens", "CredentialsV2Returns", "ForwardingLive", "PortalCloses", "UdsTransportLive", "AbacDecides", "ElixirNodeCreate", "StreamLive", "ElixirSessionLive"}
  i1 = i1
  r1 = r1
  r2 = r2
  listener = listener
  junk = junk
CHECK_DEADLOCK FALSE
PROPERTIES
  RequestsReturn
  GetsThere
  EndsOnBothSides
