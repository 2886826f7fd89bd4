\* Two packets and two verdicts over backlogs of one, a break of the stream
\* besides the daemon's cut-offs, a failed request, and two backfills.
SPECIFICATION ViewerSpec
CONSTANTS
  Page = page
  Conns = {page}
  Backlog = 1
  VBacklog = 1
  Slots = {b1, b2}
  MaxPackets = 2
  MaxVerdicts = 2
  MaxBreaks = 1
  MaxFailures = 1
INVARIANTS
  PacketHolesExplained
  VerdictHolesExplained
PROPERTIES
  EveryPacketShown
CHECK_DEADLOCK FALSE
