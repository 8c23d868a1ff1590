CONSTANTS
  Thread = {boot}
  Base = 1
  BrkMax = 16
  Hdr = 2
  MinSplit = 1
  Word = 32
  Sizes = {1, 2, 5}
  Chain = Chain
SPECIFICATION Spec
INVARIANTS TypeOK HeapInv HeapSound NothingLost CountersAgree
PROPERTY ImplementsAllocator
CHECK_DEADLOCK FALSE
