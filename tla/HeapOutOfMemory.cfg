SPECIFICATION FairSpec
CONSTANTS
  HeapStart = 16
  PageSize = 8
  Header = 4
  Unit = 2
  InitialPages = 1
  LeastPages = 1
  Levels = 3
  TableSpan = 2
  KernelPage = 0
  FreeFrames = {5}
  Sizes <- SomeSizes
PROPERTIES
  KmallocReturns
CHECK_DEADLOCK FALSE
