SPECIFICATION FairSpec
CONSTANTS
  MaxThreads = 3
  TimeSlice = 2
  Jobs <- TwoJobs
  Cycles = 2
  AllocOutcomes = {TRUE}
  Desktop = "late"
  MaxTicks = 12
  MaxInput = 2
INVARIANT
  DesktopHearsMouse
CHECK_DEADLOCK FALSE
