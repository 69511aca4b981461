CONSTANTS
  NPROC = 3
  CPUs = {c1}
SPECIFICATION FairSpec
PROPERTIES OrphansReaped
