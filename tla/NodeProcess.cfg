CONSTANTS
  Users = {u1}
  Signals = {"TERM", "KILL"}
  MaxPid = 3
  MaxCrashes = 1
  MaxCmds = 6
SPECIFICATION Spec
INVARIANTS
  AtMostOneProcess
  NoGhost
CHECK_DEADLOCK FALSE
