CONSTANTS
  KEY_RENEWAL_INTERVAL = 2
  BitmapBits = 4
  MaxNonce = 5
  MaxGarbled = 1
  None = None
SPECIFICATION Spec
INVARIANTS
  InWindowOpens
  FewSecrets
PROPERTIES
  GarbledCommitsNothing
  KeepsPromise
CHECK_DEADLOCK FALSE
