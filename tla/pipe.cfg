SPECIFICATION Spec
CONSTANTS
  Procs = {p1, p2, p3}
  First = p1
  Bytes = {0, 1}
  PIPESIZE = 2
  UINT = 4
  Sizes = {3}
  MaxKills = 1
SYMMETRY Symmetry
INVARIANTS TypeOK OpenEndsAreOpen
PROPERTIES PipeIsFifo SleepersMustWait
CHECK_DEADLOCK FALSE
