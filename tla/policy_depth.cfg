\* The instance of policy.cfg.
SPECIFICATION PolicySpec
CONSTANTS
  Layers = {flow}
  Names = {n1, n2}
  MaxDepth = 2
  Edits <- MCEdits
  Threads = {t1, t2}
INVARIANTS
  AllDeletable
