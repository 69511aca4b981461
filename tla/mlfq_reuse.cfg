SPECIFICATION Spec
CONSTANTS
  NPROC = 3
  MLFQ_LEVELS = 3
  Age = 1
  MaxTicks = 4
INVARIANT QueuedWhereItSays
CHECK_DEADLOCK FALSE
