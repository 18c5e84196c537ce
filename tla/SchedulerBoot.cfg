SPECIFICATION FairSpec
CONSTANTS
  MaxThreads = 4
  TimeSlice = 5
  Jobs <- UnevenJobs
  Cycles = 3
  AllocOutcomes = {TRUE, FALSE}
  Desktop = "never"
  MaxTicks = 60
  MaxInput = 2
INVARIANTS
  IInv
  OneRunning
  OwnStack
  NotReentered
  SleepRespected
  ExitIsFinal
  WakeLatency
PROPERTIES
  KeepsContract
  WorkersFinish
  InputServed
CHECK_DEADLOCK FALSE
