CONSTANTS
  Proc = {core, p1, p2}
  Core = core
  ListHead = ListHead
  None = None
  Slice = 1
  Word = 2
  PidWord = 1
  CountCap = 1
  SleepArgs = {1}
  Spawners = {core}
  Sleepers = {}
  Enders = {p1, p2}
  Irqs = {0}
SPECIFICATION Spec
INVARIANTS RunningIsCurrent InterruptDiscipline
SYMMETRY Symmetry
