SPECIFICATION Spec
CONSTANTS
  NPages = 6
  Procs = {p1, p2}
  Actors = {p1, p2}
  InitProc = p1
  Spaces = {s1, s2}
  NoSpace = noSpace
  MaxRef = 3
  NVA = 2
  Vals = {v0, v1}
  Zero = v0
  Junk = junk
  SegEnds = {2}
  TextPages = {0}
  ImageVal = v1
  Syscalls = {"store", "fork", "exit", "sbrk"}
INVARIANTS TypeOK RefCounted FreePagesUnused WritableIsPrivate NoLeafInFreewalk
PROPERTIES PrivateMemorySpec
CHECK_DEADLOCK FALSE
