\* One stream and one other thread that looks up names, channels and a socket
\* of one event each, one service that comes and goes.
SPECIFICATION StreamSpec
CONSTANTS
  Conn = conn
  Threads = {conn, req}
  Services = {s1}
  None = none
  TTL = 1
  ReadTicks = 1
  PCap = 1
  VCap = 1
  SockCap = 1
INVARIANTS
  StreamTypeOK
PROPERTIES
  AnswersAreRecent
  HangUpNoticed
  CutStreamEnds
  StatsFlow
  LookupsEnd
