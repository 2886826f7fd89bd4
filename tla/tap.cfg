\* A socket buffer of two and six frames: the buffer overflows before, during
\* and after a harvest, and a backlog of two wraps, with two stream clients
\* whose channels of one fill.
SPECIFICATION TapSpec
CONSTANTS
  Capacity = 2
  ChannelCap = 1
  Conns = {c1, c2}
  MaxSeq = 6
  KBuf = 2
  MaxFrames = 6
  OwnPort = 8081
  own = own
  foreign = foreign
  OwnFrames = {own}
  WireFrames = {foreign}
  Bytes <- MCBytes
INVARIANTS
  FramesAccounted
  GapsConfessed
  HeaderCoversStream
  NoFeedback
  HistoryExact
  NoSilentGap
  GapVisible
PROPERTIES
  DropsConfessed
  ImplementsFeed
CHECK_DEADLOCK FALSE
