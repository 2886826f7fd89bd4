\* Two packets and two verdicts over backlogs of one, one restart and one break
\* of the stream, one backfill at a time.
SPECIFICATION RestartSpec
CONSTANTS
  Page = page
  Conns = {page}
  Backlog = 1
  VBacklog = 1
  Slots = {b1}
  MaxPackets = 2
  MaxVerdicts = 2
  MaxBreaks = 1
  MaxFailures = 0
  MaxRestarts = 1
INVARIANTS
  LossesEndAtCarried
PROPERTIES
  ShownAfterRestart
CHECK_DEADLOCK FALSE
