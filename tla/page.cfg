\* Two packets, the first without a flow, and two verdicts, each live and in one backfill,
\* over a list whose limit of three the daemon's status lowers to one, and a window of one.
SPECIFICATION ListSpec
CONSTANTS
  f = f
  None = none
  FlowOf <- MCFlowOf
  VFlowOf <- MCVFlowOf
  Time <- MCTime
  VTime <- MCVTime
  Filters <- MCFilters
  DefaultCap = 3
  RingCap = 1
  Window = 1
INVARIANTS
  VerdictsConserved
  NoMissedMatch
  RowsFollowList
PROPERTIES
  VerdictsSettle
CHECK_DEADLOCK FALSE
