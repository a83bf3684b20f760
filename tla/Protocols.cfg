SPECIFICATION PartsSpec
CONSTANTS
  Parts = {"SecureChannelV2", "SecureChannelV2Policy", "SecureChannelV2Data", "SecureChannelV2Overlap", "CredentialsV2", "IdentityHistory", "IdentityKeys", "Forwarding", "ForwardingRust", "ForwardingEphemeral", "Portal", "UdsTransport", "Pipe2", "AbacEval", "ElixirNode", "ElixirNodeIdle", "ElixirSecureChannel", "ElixirSecureChannelData", "ElixirSecureChannelPolicies", "ElixirSecureChannelCredentials", "Stream", "ElixirSession", "KafkaCodec", "ElixirNodeCreate"}
  MaxChunks = 2
  Resets = {"inlet", "outlet"}
CHECK_DEADLOCK FALSE
INVARIANTS
  
  EndsAgree
  OnlyTheAccepted
  AddressesLead
  HistoriesVerify
  
  InOrder

  
