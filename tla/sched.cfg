SPECIFICATION Spec
CONSTANTS
  NPROC = 3
  CPUs = {c1, c2}
  Policies = {"RR", "FCFS", "LBS", "PBS"}
  StartTicks <- MCStartTicks
  Priorities = {50, 60}
  Tickets <- MCTickets
  MaxSched = 2
INVARIANTS TypeOK NoLockCycle BestIsChosen LotteryFindsWinner
SYMMETRY CpuSymmetry
