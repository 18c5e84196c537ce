SPECIFICATION Spec
CONSTANTS
  Maps <- AllMaps
  ByteBits = 2
  PageBytes = 2
  LowPages = 2
  MaxRequest = 3
INVARIANTS
  BitmapPrivate
