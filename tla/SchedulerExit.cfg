SPECIFICATION FairSpec
CONSTANTS
  MaxThreads = 3
  TimeSlice = 2
  Jobs <- TwoJobs
  Cycles = 2
  AllocOutcomes = {TRUE}
  Desktop = "any"
  MaxTicks = 12
  MaxInput = 2
INVARIANT
  ExitIsFinal
CHECK_DEADLOCK FALSE
