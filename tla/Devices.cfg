SPECIFICATION DevicesSpec
CONSTANTS
  ScreenWidth = 11
  ScreenHeight = 13
  FirstWidth = 9
  FirstHeight = 30
  FontWidth = 1
  FontHeight = 2
  RowHeight = 3
  Padding = 3
  KeyMap <- SmallKeyMap
  LineSize = 3
  Banner <- SmallBanner
  Prompt <- SmallPrompt
  Outputs <- SmallOutputs
  Scenarios <- SmallScenarios
  Packets <- SmallPackets
  Words = 2
  Polls = 2
  AddressSpace = 2
  Sectors = {0, 1, 2}
  Contents <- SmallContents
INVARIANTS
  CursorOnScreen
  LineOnScreen
  NoByteIsStuck
  PointerAsMoved
  ShiftReleased
  SectorTransferred
PROPERTY
  CallsReturn
CHECK_DEADLOCK FALSE
