\* Four descriptors, of which connections may hold all but the device's own, and
\* two threads that ask for dumps while the device comes and goes.
SPECIFICATION LinkSpec
CONSTANTS
  MaxFd = 4
  MaxSockets = 3
  Threads = {t1, t2}
INVARIANTS
  DescriptorsOwned
  StrayOnlyAfterLoss
PROPERTIES
  Reconnects
  LossIsNoticed
  StatusSettles
