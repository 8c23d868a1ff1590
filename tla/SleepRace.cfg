CONSTANTS
  Proc = {core, p1}
  Core = core
  ListHead = ListHead
  None = None
  Slice = 1
  Word = 8
  PidWord = 1
  CountCap = 1
  SleepArgs = {1, 2}
  Spawners = {core}
  Sleepers = {p1}
  Enders = {}
  Irqs = {0}
SPECIFICATION Spec
INVARIANT SleepsAsAsked
