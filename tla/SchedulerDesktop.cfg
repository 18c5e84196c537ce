SPECIFICATION FairSpec
CONSTANTS
  MaxThreads = 2
  TimeSlice = 2
  Jobs <- ShortJobs
  Cycles = 1
  AllocOutcomes = {TRUE, FALSE}
  Desktop = "late"
  MaxTicks = 10
  MaxInput = 2
INVARIANTS
  EoiBalanced
PROPERTIES
  SleeperWakes
CHECK_DEADLOCK FALSE
