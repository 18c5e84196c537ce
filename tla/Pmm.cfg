SPECIFICATION Spec
CONSTANTS
  Maps <- GoodMaps
  ByteBits = 2
  PageBytes = 2
  LowPages = 2
  MaxRequest = 3
INVARIANTS
  CountersAgree
  ReservedKept
  NothingLost
  BitmapPrivate
PROPERTIES
  IsAllocator
