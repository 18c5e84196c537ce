SPECIFICATION ClientSpec
CONSTANTS
  sub = sub
  leaf = leaf
  x = x
  y = y
  Names = {sub, leaf}
  Empty = Empty
  Byte = {x, y}
  Junk = Junk
  MaxFds = 2
  LeastBuffer = 2
  Setup <- SmallSetup
  Paths <- SomePaths
  SelfTest <- SmallTest
  Lines <- SomeLines
  Wholes <- SomeWholes
  Texts <- SomeTexts
  Counts = {1, 2}
  MaxNodes = 4
  MaxSize = 3
  MaxBuffers = 1
INVARIANTS
  WellFormed
  NoJunk
  CommandsCloseTheirFiles
PROPERTIES
  FailuresContained
  PathsStay
  KeepsContents
