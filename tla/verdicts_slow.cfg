\* A channel of one that nobody reads from while two events are kept.
SPECIFICATION VerdictSpec
CONSTANTS
  VRing = 2
  ChannelCap = 1
  Conns = {c1, c2}
  KQueue = 2
  MaxEvents = 3
  Traffic <- MCTraffic
SYMMETRY ConnSymmetry
INVARIANTS
  SlowAreCutOff
CHECK_DEADLOCK FALSE
