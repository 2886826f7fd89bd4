\* A backlog of two, channels of one, five events: the backlog wraps, a channel
\* overflows while its connection stays subscribed, and the kernel loses some.
SPECIFICATION VerdictSpec
CONSTANTS
  VRing = 2
  ChannelCap = 1
  Conns = {c1, c2}
  KQueue = 2
  MaxEvents = 5
  Traffic <- MCTraffic
SYMMETRY ConnSymmetry
INVARIANTS
  BacklogIsNewestKept
  RejoinBySeq
  StreamIsKeptMinusMissed
CHECK_DEADLOCK FALSE
