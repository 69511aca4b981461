SPECIFICATION FairSpec
CONSTANTS
  NPages = 9
  Procs = {p1, p2}
  Actors = {p1, p2}
  InitProc = p1
  Spaces = {s1, s2, s3}
  NoSpace = noSpace
  MaxRef = 4
  NVA = 3
  Vals = {v0, v1}
  Zero = v0
  Junk = junk
  SegEnds = {1, 3}
  TextPages = {0}
  ImageVal = v1
  Syscalls = {"copyout", "fork", "exec"}
PROPERTIES PrivateMemorySpec OnlyUvmcopyLeaks KernelReturns
CHECK_DEADLOCK FALSE
