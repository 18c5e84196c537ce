SPECIFICATION Spec
CONSTANTS
  ScreenWidth = 16
  ScreenHeight = 16
  MaxWindows = 8
  Topbar = 2
  Titlebar = 2
  Taskbar = 2
  Shadow = 1
  CloseFrom = 1
  CloseTo = 1
  Margin = 1
  Gap = 0
  LowGap = 1
  Large <- NotLarge
  Sizes <- NoSizes
  Pointers <- SomePointers
INVARIANTS
  OneDrag
  GrabStays
  Reachable
  ShownIsHit
