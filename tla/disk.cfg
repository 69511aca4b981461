SPECIFICATION Spec
CONSTANTS
  Procs = {p1, p2, p3}
  Blocks = {b1, b2, b3, b4}
  NBUF = 3
  NUM = 7
  None = None
SYMMETRY Symmetry
INVARIANTS TypeOK OneCopyPerBlock DescriptorsConserved SleepersMustWait NoLostCompletion
PROPERTIES BlocksAreStored
