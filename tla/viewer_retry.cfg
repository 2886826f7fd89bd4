\* Packets only, a backlog that still has the first one, one failed request, and
\* one backfill at a time.
SPECIFICATION ViewerSpec
CONSTANTS
  Page = page
  Conns = {page}
  Backlog = 3
  VBacklog = 1
  Slots = {b1}
  MaxPackets = 3
  MaxVerdicts = 0
  MaxBreaks = 1
  MaxFailures = 1
INVARIANTS
  RetryHeals
CHECK_DEADLOCK FALSE
