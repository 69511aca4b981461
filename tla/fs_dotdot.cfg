SPECIFICATION Spec
CONSTANTS
  Procs = {p1, p2}
  NINODES = 3
  Names = {"a", "b"}
  Calls <- UpCalls
  MaxLink = 2
  None = None
SYMMETRY Symmetry
INVARIANTS IlockFindsType
