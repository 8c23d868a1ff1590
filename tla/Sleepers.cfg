CONSTANTS
  Proc = {core, p1, p2}
  Core = core
  ListHead = ListHead
  None = None
  Slice = 1
  Word = 3
  PidWord = 1
  CountCap = 1
  SleepArgs = {2}
  Spawners = {core}
  Sleepers = {core, p1}
  Enders = {}
  Irqs = {0}
SPECIFICATION FairSpec
PROPERTIES ReadyRuns SleepReturns
