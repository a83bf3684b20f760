SPECIFICATION Spec
CONSTANTS
  Initiators = {i1, i2}
  Responders = {r1, r2}
  FaultKinds = {"lose", "repeat", "damage", "send", "refuse"}
  MaxFaults = 1
  Listener = listener
  Junk = junk
INVARIANTS
  Agreement
  NoLeftovers
  OkMeansOpen
PROPERTIES
  AgreesOnKey
CHECK_DEADLOCK FALSE
