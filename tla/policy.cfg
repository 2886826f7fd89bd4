\* One layer, two names, paths as deep as set_rule allows when MAX_DEPTH is 2,
\* and two deletions that may race each other, the edits and a client that reads.
SPECIFICATION WalkSpec
CONSTANTS
  Layers = {flow}
  Names = {n1, n2}
  MaxDepth = 2
  Edits <- MCEdits
  Threads = {t1, t2}
SYMMETRY PolicySymmetry
INVARIANTS
  PolicyTypeOK
  NeverMixed
PROPERTIES
  OneRuleAtATime
  ReadAnswers
