CONSTANTS
  Thread = {t1, t2}
  Base = 1
  BrkMax = 16
  Hdr = 2
  MinSplit = 1
  Word = 32
  Sizes = {1, 2}
  Chain = Chain
SPECIFICATION Spec
INVARIANT BreakIsLocked
CHECK_DEADLOCK FALSE
