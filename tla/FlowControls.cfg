CONSTANTS
    Conns = {c1, c2}
    Chans = {k1, k2}
    Receivers = {r1}
    MaxQueue = 0
SPECIFICATION Spec
SYMMETRY Symmetry
INVARIANTS
  OnlyOwnReceivers
  NotCutOff
CHECK_DEADLOCK FALSE
