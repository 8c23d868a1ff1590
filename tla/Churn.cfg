CONSTANTS
  Proc = {core, p1}
  Core = core
  ListHead = ListHead
  None = None
  Slice = 2
  Word = 4
  PidWord = 2
  CountCap = 2
  SleepArgs = {0, 1, 2}
  Spawners = {core}
  Sleepers = {p1}
  Enders = {p1}
  Irqs = {0, 1}
SPECIFICATION Spec
INVARIANTS TypeOK RunningIsCurrent InterruptDiscipline NoHang ListIntact QueueIntact EndNeverReturns ProgramIsRunning
PROPERTIES NewRoundWhenUsedUp WakesOnTimeout SharesRoundRobin
