SPECIFICATION FairSpec
CONSTANTS
  HeapStart = 24
  PageSize = 8
  Header = 4
  Unit = 2
  InitialPages = 1
  LeastPages = 1
  Levels = 3
  TableSpan = 3
  KernelPage = 0
  FreeFrames = {4, 5, 6, 7, 8, 9}
  Sizes <- SomeSizes
INVARIANTS
  WellFormed
  GrowsOnlyWhenFull
  ExpansionSuffices
  HeapMapped
PROPERTIES
  IsPool
  EnoughMemoryReturns
CHECK_DEADLOCK FALSE
