SPECIFICATION Spec
CONSTANTS
  t1 = t1
  t2 = t2
  Threads <- MCThreads
  Page <- MCPage
  MaxRequest = 2
SYMMETRY Symmetry
INVARIANTS
  LiveMapped
  PagesPartitioned
  HangsOnlyOnPreempted
CHECK_DEADLOCK FALSE
