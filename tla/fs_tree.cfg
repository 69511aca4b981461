SPECIFICATION Spec
CONSTANTS
  Procs = {p1, p2}
  NINODES = 3
  Names = {"a", "b"}
  Calls <- TreeCalls
  MaxLink = 2
  None = None
SYMMETRY Symmetry
INVARIANTS TypeOK RefsCounted LinksCovered NoPanic NoWaitCycle
PROPERTIES OnlyRemovedDirsLose
