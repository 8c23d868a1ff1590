CONSTANTS
  Thread = {core}
  Asks <- DmaAsks
  Total = 10
  NormalBase = 8
  HighBase = 20
  LowPages = 1
  KernelStart = 2
  KernelPages = 1
  BitmapPages = 1
  Table = {kernel, heap}
  KernelTable = kernel
  Entries = 2
  Word = 64
  None = None
SPECIFICATION Spec
INVARIANTS TypeOK FramesOnce FramesInv CountersMatch
PROPERTIES AllocFindsRun EmptyZoneCounts
