SPECIFICATION FairSpec
CONSTANTS
  Workers = {w1, w2}
  Outside = {x1}
  Strands = {s1, s2}
  Funcs = {f1, f2, f3, f4}
  NoThread = NoThread
  NoFunc = NoFunc
  Throws = TRUE
CHECK_DEADLOCK FALSE
INVARIANTS
  NonConcurrent
PROPERTIES
  ImplementsStrand
  EnqueuedRuns
