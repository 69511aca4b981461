SPECIFICATION Spec
CONSTANTS
  Procs = {p1, p2, p3}
  Blocks = {b1, b2}
  Vals = {v0, v1}
  NoBuf = noBuf
  MAXOPBLOCKS = 2
  OpBlocks = 2
  LOGSIZE = 6
  NLog = 6
INVARIANTS TypeOK QuietIsStable CommitIsExclusive SleepersMustWait
PROPERTIES AtomicDiskSpec
SYMMETRY Symmetry
