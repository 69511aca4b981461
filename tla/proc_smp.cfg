CONSTANTS
  NPROC = 3
  CPUs = {c1, c2}
SPECIFICATION Spec
INVARIANTS TypeOK NoLostWakeup StackInUse
PROPERTIES WaitFailsRightly LineageSpec
